---- MODULE Spec2Model ----
(***************************************************************************)
(* Content origin credentials (credential_system_v3.py): canonical JSON,   *)
(* DID validation, detached JWS signing / verification and the             *)
(* ContentOriginCredential instance, as a state machine.                   *)
(*                                                                         *)
(* Text is modelled character by character: a Python str is a sequence of  *)
(* one-character strings, bytes are sequences of 0..255.                   *)
(***************************************************************************)
EXTENDS Integers, Sequences, FiniteSets, TLC

(***************************************************************************)
(* Characters and code points                                              *)
(***************************************************************************)

\* U+0060 (grave accent).
Backtick == "U+0060"

\* The printable ASCII characters in code-point order (U+0020 .. U+007E).
AsciiPrintable ==
    <<" ", "!", "\"", "#", "$", "%", "&", "'", "(", ")", "*", "+", ",", "-", ".", "/",
      "0", "1", "2", "3", "4", "5", "6", "7", "8", "9", ":", ";", "<", "=", ">", "?",
      "@", "A", "B", "C", "D", "E", "F", "G", "H", "I", "J", "K", "L", "M", "N", "O",
      "P", "Q", "R", "S", "T", "U", "V", "W", "X", "Y", "Z", "[", "\\", "]", "^", "_",
      Backtick, "a", "b", "c", "d", "e", "f", "g", "h", "i", "j", "k", "l", "m", "n", "o",
      "p", "q", "r", "s", "t", "u", "v", "w", "x", "y", "z", "{", "|", "}", "~">>

\* U+00E9 (e with acute accent), one character outside ASCII.
EAcute == "U+00E9"

Chars == {AsciiPrintable[i] : i \in 1..Len(AsciiPrintable)} \cup {"\n", EAcute}

\* ord(c): the Unicode code point of a character.
ord ==
    [c \in Chars |->
        IF c = "\n" THEN 10
        ELSE IF c = EAcute THEN 233
        ELSE 31 + (CHOOSE i \in 1..Len(AsciiPrintable) : AsciiPrintable[i] = c)]

Lower == {"a", "b", "c", "d", "e", "f", "g", "h", "i", "j", "k", "l", "m",
          "n", "o", "p", "q", "r", "s", "t", "u", "v", "w", "x", "y", "z"}
Upper == {"A", "B", "C", "D", "E", "F", "G", "H", "I", "J", "K", "L", "M",
          "N", "O", "P", "Q", "R", "S", "T", "U", "V", "W", "X", "Y", "Z"}
Digit == {"0", "1", "2", "3", "4", "5", "6", "7", "8", "9"}

Min(a, b) == IF a < b THEN a ELSE b

\* Concatenation of the sequences ss[lo..hi].  (f \o <<>> is f, held as a
\* tuple.)
RECURSIVE FlattenRange(_, _, _)
FlattenRange(ss, lo, hi) ==
    IF lo > hi THEN <<>>
    ELSE IF lo = hi THEN ss[lo]
    ELSE LET mid == (lo + hi) \div 2
         IN  FlattenRange(ss, lo, mid) \o FlattenRange(ss, mid + 1, hi)

Flatten(ss) == FlattenRange(ss, 1, Len(ss))

\* str.encode('utf-8'): one byte below U+0080, two bytes below U+0800.
encode_utf8(s) ==
    IF \A i \in 1..Len(s) : ord[s[i]] < 128
    THEN [i \in 1..Len(s) |-> ord[s[i]]] \o <<>>
    ELSE Flatten([i \in 1..Len(s) |->
            LET cp == ord[s[i]]
            IN  IF cp < 128 THEN <<cp>>
                ELSE <<192 + (cp \div 64), 128 + (cp % 64)>>])

(***************************************************************************)
(* JSON-shaped Python values.  A dict is the sequence of its items in       *)
(* insertion order; its keys are str or int values, pairwise different.    *)
(***************************************************************************)
Str(s)  == [t |-> "str", s |-> s]
Int_(n) == [t |-> "int", n |-> n]
Bool(b) == [t |-> "bool", b |-> b]
None    == [t |-> "null"]
List(l) == [t |-> "list", l |-> l]
Dict(d) == [t |-> "dict", d |-> d]

\* The outcome of a call that raised: the exception's name.
TypeError == <<"TypeError">>
BinasciiError == <<"binascii.Error">>

\* str(n) for an integer n.
RECURSIVE int_to_str(_)
int_to_str(n) ==
    IF n < 0 THEN <<"-">> \o int_to_str(0 - n)
    ELSE IF n < 10 THEN <<AsciiPrintable[17 + n]>>
    ELSE int_to_str(n \div 10) \o <<AsciiPrintable[17 + (n % 10)]>>

\* json.encoder.py_encode_basestring: quote, backslash and control
\* characters are escaped, everything else is emitted as it is
\* (ensure_ascii=False).
encode_basestring(s) ==
    <<"\"">> \o
    (IF \A i \in 1..Len(s) : s[i] \notin {"\"", "\\", "\n"}
     THEN s
     ELSE Flatten([i \in 1..Len(s) |->
            IF s[i] = "\"" THEN <<"\\", "\"">>
            ELSE IF s[i] = "\\" THEN <<"\\", "\\">>
            ELSE IF s[i] = "\n" THEN <<"\\", "n">>
            ELSE <<s[i]>>])) \o
    <<"\"">>

\* a < b for two str (code-point order, as Python compares str).
str_less(a, b) ==
    \E i \in 1..(Min(Len(a), Len(b)) + 1) :
        /\ \A j \in 1..(i - 1) : a[j] = b[j]
        /\ \/ i > Len(a) /\ i <= Len(b)
           \/ i <= Len(a) /\ i <= Len(b) /\ ord[a[i]] < ord[b[i]]

\* k1 < k2 for two dict keys of one type.
key_less(k1, k2) ==
    IF k1.t = "str" THEN str_less(k1.s, k2.s) ELSE k1.n < k2.n

\* sort_keys=True: sorted(dct.items()); comparing a str key with an int key
\* raises TypeError.
sort_comparable(d) ==
    \A i, j \in 1..Len(d) : d[i][1].t = d[j][1].t


sort_items(d) ==
    LET smaller == [j \in 1..Len(d) |->
                      Cardinality({m \in 1..Len(d) : key_less(d[m][1], d[j][1])})]
                   \o <<>>
    IN  [i \in 1..Len(d) |-> d[CHOOSE j \in 1..Len(d) : smaller[j] = i - 1]] \o <<>>

\* The key of an item as json.dumps emits it: a str key as it is, an int key
\* as str(key).
key_text(k) == IF k.t = "str" THEN k.s ELSE int_to_str(k.n)

\* Items joined by the item separator ','.
join_comma(parts) ==
    Flatten([i \in 1..Len(parts) |->
        IF i = 1 THEN parts[i] ELSE <<",">> \o parts[i]])

\* json.dumps(obj, ensure_ascii=False, separators=(',', ':'), sort_keys=True):
\* the text, or TypeError.
RECURSIVE dumps(_)
dumps(v) ==
    CASE v.t = "str"  -> encode_basestring(v.s)
      [] v.t = "int"  -> int_to_str(v.n)
      [] v.t = "bool" -> IF v.b THEN <<"t", "r", "u", "e">>
                         ELSE <<"f", "a", "l", "s", "e">>
      [] v.t = "null" -> <<"n", "u", "l", "l">>
      [] v.t = "list" ->
            LET parts == [i \in 1..Len(v.l) |-> dumps(v.l[i])] \o <<>>
            IN  IF \E i \in 1..Len(parts) : parts[i] = TypeError THEN TypeError
                ELSE <<"[">> \o join_comma(parts) \o <<"]">>
      [] v.t = "dict" ->
            IF ~sort_comparable(v.d) THEN TypeError
            ELSE
            LET items == sort_items(v.d)
                vals  == [i \in 1..Len(items) |-> dumps(items[i][2])] \o <<>>
                parts == [i \in 1..Len(items) |->
                            encode_basestring(key_text(items[i][1]))
                            \o <<":">> \o vals[i]]
            IN  IF \E i \in 1..Len(vals) : vals[i] = TypeError THEN TypeError
                ELSE <<"{">> \o join_comma(parts) \o <<"}">>

\* CanonicalJSON.serialize: the UTF-8 bytes of the canonical text.
serialize(obj) ==
    LET text == dumps(obj)
    IN  IF text = TypeError THEN TypeError ELSE encode_utf8(text)


(***************************************************************************)
(* base64 (urlsafe alphabet)                                               *)
(***************************************************************************)

\* The urlsafe alphabet: A-Z a-z 0-9 - _
B64UrlAlphabet ==
    SubSeq(AsciiPrintable, 34, 59) \o SubSeq(AsciiPrintable, 66, 91)
    \o SubSeq(AsciiPrintable, 17, 26) \o <<"-", "_">>

\* base64.urlsafe_b64encode: 4 characters for every 3 bytes, the last group
\* padded with '='.
urlsafe_b64encode(b) ==
    [j \in 1..(4 * ((Len(b) + 2) \div 3)) |->
        LET g  == (j - 1) \div 4
            p  == (j - 1) % 4
            b0 == b[3 * g + 1]
            b1 == IF 3 * g + 2 <= Len(b) THEN b[3 * g + 2] ELSE 0
            b2 == IF 3 * g + 3 <= Len(b) THEN b[3 * g + 3] ELSE 0
        IN  CASE p = 0 -> B64UrlAlphabet[(b0 \div 4) + 1]
              [] p = 1 -> B64UrlAlphabet[((b0 % 4) * 16 + (b1 \div 16)) + 1]
              [] p = 2 -> IF 3 * g + 2 > Len(b) THEN "="
                          ELSE B64UrlAlphabet[((b1 % 16) * 4 + (b2 \div 64)) + 1]
              [] p = 3 -> IF 3 * g + 3 > Len(b) THEN "="
                          ELSE B64UrlAlphabet[(b2 % 64) + 1]]
    \o <<>>

\* str.rstrip('='): the string without its trailing '=' characters.
rstrip_pad(s) ==
    LET keep == {n \in 0..Len(s) :
                    /\ \A j \in (n + 1)..Len(s) : s[j] = "="
                    /\ n > 0 => s[n] # "="}
    IN  SubSeq(s, 1, CHOOSE n \in keep : TRUE)

\* The value of a character for the decoder, after urlsafe_b64decode has
\* translated '-' to '+' and '_' to '/': 0..63, or 64 for a character that
\* is not in the alphabet.
b64_value(c) ==
    IF c = "+" THEN 62
    ELSE IF c = "/" THEN 63
    ELSE IF \E v \in 1..64 : B64UrlAlphabet[v] = c
         THEN (CHOOSE v \in 1..64 : B64UrlAlphabet[v] = c) - 1
         ELSE 64

\* binascii.a2b_base64 (not strict): characters outside the alphabet are
\* skipped, a pad that completes a quad ends the input, and input that ends
\* inside a quad raises binascii.Error.
RECURSIVE a2b_base64(_, _, _, _, _, _)
a2b_base64(s, i, quad_pos, leftchar, pads, out) ==
    IF i > Len(s)
    THEN IF quad_pos # 0 THEN BinasciiError ELSE out
    ELSE IF s[i] = "="
    THEN IF quad_pos >= 2 /\ quad_pos + pads + 1 >= 4
         THEN out
         ELSE a2b_base64(s, i + 1, quad_pos, leftchar,
                         IF quad_pos >= 2 THEN pads + 1 ELSE pads, out)
    ELSE LET v == b64_value(s[i])
         IN  IF v >= 64
             THEN a2b_base64(s, i + 1, quad_pos, leftchar, pads, out)
             ELSE CASE quad_pos = 0 ->
                        a2b_base64(s, i + 1, 1, v, 0, out)
                    [] quad_pos = 1 ->
                        a2b_base64(s, i + 1, 2, v % 16, 0,
                                   Append(out, leftchar * 4 + (v \div 16)))
                    [] quad_pos = 2 ->
                        a2b_base64(s, i + 1, 3, v % 4, 0,
                                   Append(out, leftchar * 16 + (v \div 4)))
                    [] quad_pos = 3 ->
                        a2b_base64(s, i + 1, 0, 0, 0,
                                   Append(out, leftchar * 64 + v))

urlsafe_b64decode(s) == a2b_base64(s, 1, 0, 0, 0, <<>>)

\* '=' * n
pad_str(n) == [i \in 1..n |-> "="]

\* base64.urlsafe_b64encode(b).decode('utf-8').rstrip('=')
b64url_nopad(b) == rstrip_pad(urlsafe_b64encode(b))


(***************************************************************************)
(* dict operations                                                         *)
(***************************************************************************)
has_key(m, k) == \E i \in 1..Len(m.d) : m.d[i][1] = Str(k)

\* m[k] for a key that is present.
get_item(m, k) == m.d[CHOOSE i \in 1..Len(m.d) : m.d[i][1] = Str(k)][2]

\* m[k] = v: the value is replaced where the key is, a new key goes last.
set_item(m, k, v) ==
    IF has_key(m, k)
    THEN Dict([i \in 1..Len(m.d) |->
                 IF m.d[i][1] = Str(k) THEN <<Str(k), v>> ELSE m.d[i]])
    ELSE Dict(Append(m.d, <<Str(k), v>>))

\* del m[k]
del_item(m, k) ==
    Dict(SelectSeq(m.d, LAMBDA it : it[1] # Str(k)))

\* m[path[1]][path[2]]... = v
RECURSIVE set_path(_, _, _)
set_path(m, path, v) ==
    IF Len(path) = 1 THEN set_item(m, path[1], v)
    ELSE set_item(m, path[1], set_path(get_item(m, path[1]), Tail(path), v))

(***************************************************************************)
(* json.loads, as json.load and a reader of the canonical bytes apply it    *)
(***************************************************************************)
JSONDecodeError == <<"JSONDecodeError">>

\* chr(cp) for the code points of Chars.
chr(cp) == CHOOSE c \in Chars : ord[c] = cp

\* bytes.decode('utf-8') of bytes that encode_utf8 produced: a character
\* starts at every byte that is not a continuation byte.
decode_utf8(b) ==
    IF \A i \in 1..Len(b) : b[i] < 128
    THEN [i \in 1..Len(b) |-> chr(b[i])] \o <<>>
    ELSE LET starts == SelectSeq([i \in 1..Len(b) |-> i],
                                 LAMBDA i : b[i] < 128 \/ b[i] >= 192)
         IN  [k \in 1..Len(starts) |->
                LET i == starts[k]
                IN  IF b[i] < 128 THEN chr(b[i])
                    ELSE chr((b[i] - 192) * 64 + (b[i + 1] - 128))] \o <<>>

\* s[i:i+1]: the character at i, or the empty string past the end.
char_at(s, i) == IF i \in 1..Len(s) THEN s[i] ELSE ""

\* The end of the whitespace that starts at i.
skip_ws(s, i) ==
    CHOOSE j \in i..(Len(s) + 1) :
        /\ \A m \in i..(j - 1) : s[m] \in {" ", "\n"}
        /\ char_at(s, j) \notin {" ", "\n"}

Parsed(v, end) == [ok |-> TRUE, v |-> v, end |-> end]
NotParsed == [ok |-> FALSE]

\* json.decoder.py_scanstring from the character after the opening quote:
\* the str and the index after the closing quote.
RECURSIVE scanstring(_, _, _)
scanstring(s, i, acc) ==
    LET c == char_at(s, i)
    IN  IF c = "" \/ c = "\n" THEN NotParsed
        ELSE IF c = "\"" THEN Parsed(acc, i + 1)
        ELSE IF c = "\\"
             THEN LET esc == char_at(s, i + 1)
                  IN  IF esc \in {"\"", "\\", "/"}
                      THEN scanstring(s, i + 2, Append(acc, esc))
                      ELSE IF esc = "n"
                      THEN scanstring(s, i + 2, Append(acc, "\n"))
                      ELSE IF esc = "u" /\ (\A j \in 1..4 : char_at(s, i + 1 + j) = <<"0", "0", "e", "9">>[j])
                      THEN scanstring(s, i + 6, Append(acc, EAcute))
                      ELSE NotParsed
        ELSE scanstring(s, i + 1, Append(acc, c))

\* int(text) for a run of digits.
RECURSIVE digits_to_int(_)
digits_to_int(ds) ==
    IF Len(ds) = 0 THEN 0
    ELSE 10 * digits_to_int(SubSeq(ds, 1, Len(ds) - 1)) + (ord[ds[Len(ds)]] - 48)

\* The integer NUMBER_RE matches at i: -?(0|[1-9][0-9]*).
scan_int(s, i) ==
    LET neg   == char_at(s, i) = "-"
        start == IF neg THEN i + 1 ELSE i
        stop  == IF char_at(s, start) = "0" THEN start + 1
                 ELSE CHOOSE j \in start..(Len(s) + 1) :
                        /\ \A m \in start..(j - 1) : s[m] \in Digit
                        /\ char_at(s, j) \notin Digit
        n     == digits_to_int(SubSeq(s, start, stop - 1))
    IN  IF stop = start \/ char_at(s, stop) \in {".", "e", "E"} THEN NotParsed
        ELSE Parsed(Int_(IF neg THEN 0 - n ELSE n), stop)

literal_at(s, i, w) == i + Len(w) - 1 <= Len(s) /\ SubSeq(s, i, i + Len(w) - 1) = w

\* json.scanner.py_make_scanner._scan_once, JSONObject and JSONArray: the
\* value that starts at i and the index after it.
RECURSIVE scan_once(_, _), parse_members(_, _, _), parse_elements(_, _, _)
scan_once(s, i) ==
    LET c == char_at(s, i)
    IN  IF c = "\"" THEN
            LET r == scanstring(s, i + 1, <<>>)
            IN  IF r.ok THEN Parsed(Str(r.v), r.end) ELSE NotParsed
        ELSE IF c = "{" THEN
            LET j == skip_ws(s, i + 1)
            IN  IF char_at(s, j) = "}" THEN Parsed(Dict(<<>>), j + 1)
                ELSE parse_members(s, j, Dict(<<>>))
        ELSE IF c = "[" THEN
            LET j == skip_ws(s, i + 1)
            IN  IF char_at(s, j) = "]" THEN Parsed(List(<<>>), j + 1)
                ELSE parse_elements(s, j, <<>>)
        ELSE IF literal_at(s, i, <<"n", "u", "l", "l">>) THEN Parsed(None, i + 4)
        ELSE IF literal_at(s, i, <<"t", "r", "u", "e">>) THEN Parsed(Bool(TRUE), i + 4)
        ELSE IF literal_at(s, i, <<"f", "a", "l", "s", "e">>)
             THEN Parsed(Bool(FALSE), i + 5)
        ELSE IF c = "-" \/ c \in Digit THEN scan_int(s, i)
        ELSE NotParsed

\* The members of an object from the opening quote of a key at i; a key that
\* comes again replaces the value where the key first stood.
parse_members(s, i, acc) ==
    IF char_at(s, i) # "\"" THEN NotParsed
    ELSE
    LET key == scanstring(s, i + 1, <<>>)
    IN  IF ~key.ok THEN NotParsed
        ELSE
        LET colon == skip_ws(s, key.end)
        IN  IF char_at(s, colon) # ":" THEN NotParsed
            ELSE
            LET val == scan_once(s, skip_ws(s, colon + 1))
            IN  IF ~val.ok THEN NotParsed
                ELSE
                LET m    == skip_ws(s, val.end)
                    acc2 == set_item(acc, key.v, val.v)
                IN  IF char_at(s, m) = "}" THEN Parsed(acc2, m + 1)
                    ELSE IF char_at(s, m) = ","
                    THEN parse_members(s, skip_ws(s, m + 1), acc2)
                    ELSE NotParsed

\* The elements of an array from the first character of an element at i.
parse_elements(s, i, acc) ==
    LET val == scan_once(s, i)
    IN  IF ~val.ok THEN NotParsed
        ELSE
        LET m    == skip_ws(s, val.end)
            acc2 == Append(acc, val.v)
        IN  IF char_at(s, m) = "]" THEN Parsed(List(acc2), m + 1)
            ELSE IF char_at(s, m) = ","
            THEN parse_elements(s, skip_ws(s, m + 1), acc2)
            ELSE NotParsed

\* json.loads(b) for UTF-8 bytes b: the value, or JSONDecodeError.
loads(b) ==
    LET s == decode_utf8(b)
        r == scan_once(s, skip_ws(s, 1))
    IN  IF r.ok /\ skip_ws(s, r.end) = Len(s) + 1 THEN r.v ELSE JSONDecodeError

(***************************************************************************)
(* String literals of the source                                           *)
(***************************************************************************)
S_alg == <<"a", "l", "g">>
S_kid == <<"k", "i", "d">>
S_typ == <<"t", "y", "p">>
S_iat == <<"i", "a", "t">>
S_JWS == <<"J", "W", "S">>
S_type == <<"t", "y", "p", "e">>
S_JWS_detached == <<"J", "W", "S", "-", "d", "e", "t", "a", "c", "h", "e", "d">>
S_created == <<"c", "r", "e", "a", "t", "e", "d">>
S_signature == <<"s", "i", "g", "n", "a", "t", "u", "r", "e">>
S_RS256 == <<"R", "S", "2", "5", "6">>
S_none == <<"n", "o", "n", "e">>
S_credentialId == <<"c", "r", "e", "d", "e", "n", "t", "i", "a", "l", "I", "d">>
S_version == <<"v", "e", "r", "s", "i", "o", "n">>
S_mediaType == <<"m", "e", "d", "i", "a", "T", "y", "p", "e">>
S_fingerprintBundle == <<"f", "i", "n", "g", "e", "r", "p", "r", "i", "n", "t", "B", "u", "n", "d", "l", "e">>
S_creator == <<"c", "r", "e", "a", "t", "o", "r">>
S_did == <<"d", "i", "d">>
S_timestamp == <<"t", "i", "m", "e", "s", "t", "a", "m", "p">>
S_issued == <<"i", "s", "s", "u", "e", "d">>
S_contentMetadata == <<"c", "o", "n", "t", "e", "n", "t", "M", "e", "t", "a", "d", "a", "t", "a">>
S_revocationPointer == <<"r", "e", "v", "o", "c", "a", "t", "i", "o", "n", "P", "o", "i", "n", "t", "e", "r">>
S_chainOfCustody == <<"c", "h", "a", "i", "n", "O", "f", "C", "u", "s", "t", "o", "d", "y">>
S_ext == <<"e", "x", "t">>
S_created_timestamp == <<"c", "r", "e", "a", "t", "e", "d", "_", "t", "i", "m", "e", "s", "t", "a", "m", "p">>
S_status == <<"s", "t", "a", "t", "u", "s">>
S_revoked == <<"r", "e", "v", "o", "k", "e", "d">>
S_verification == <<"v", "e", "r", "i", "f", "i", "c", "a", "t", "i", "o", "n">>
S_title == <<"t", "i", "t", "l", "e">>

\* CREDENTIAL_VERSION = "3.0.0"
CREDENTIAL_VERSION == <<"3", ".", "0", ".", "0">>

(***************************************************************************)
(* Clock                                                                   *)
(***************************************************************************)

\* datetime.now(timezone.utc).strftime('%Y-%m-%dT%H:%M:%SZ') when the clock
\* reads sec seconds past 2026-01-01T00:00:00Z (sec < 60).
strftime(sec) ==
    <<"2", "0", "2", "6", "-", "0", "1", "-", "0", "1", "T", "0", "0", ":", "0", "0", ":">> \o
    (IF sec < 10 THEN <<"0">> ELSE <<>>) \o int_to_str(sec) \o <<"Z">>

(***************************************************************************)
(* RSA-PSS, as an ideal signature scheme.  Every call of private_key.sign  *)
(* is recorded as [n, key, msg]: the n-th signature, its key pair and its  *)
(* message.  The random salt makes every signature fresh, and              *)
(* public_key.verify accepts exactly the signatures that were made with    *)
(* its key pair over the same message.                                     *)
(***************************************************************************)

\* The key pairs: the private key and the public key of pair k are both
\* named k.
Keys == {1, 2, 3}

\* The size of a signature in bytes (the size of the modulus): 4, 5 and 6
\* stand for the three residues modulo 3 of 256, 512 and 384.
sig_len(k) == 3 + k

\* The bytes of the n-th signature, made with key pair k.
signature_bytes(k, n) ==
    [i \in 1..sig_len(k) |-> IF i = 1 THEN n ELSE (37 * n + 16 * k + i) % 256]

\* A verification that accepts a signature made with any key pair.
rsa_verify_any_key(public_key, signature, signing_input, made) ==
    \E e \in made :
        /\ e.msg = signing_input
        /\ signature = signature_bytes(e.key, e.n)

\* public_key.verify(signature, signing_input, PSS, SHA256): TRUE, or FALSE
\* where it raises InvalidSignature.
rsa_verify(public_key, signature, signing_input, made) ==
    \E e \in made :
        /\ e.key = public_key
        /\ e.msg = signing_input
        /\ signature = signature_bytes(public_key, e.n)

(***************************************************************************)
(* JWSDetached                                                             *)
(***************************************************************************)
\* A header whose "typ" differs from the one verify_detached rebuilds.
create_jws_header_typ_JWT(algorithm, key_id, created_at) ==
    Dict(<< <<Str(S_alg), algorithm>>,
            <<Str(S_kid), key_id>>,
            <<Str(S_typ), Str(<<"J", "W", "T">>)>>,
            <<Str(S_iat), created_at>> >>)

\* JWSDetached.create_jws_header
create_jws_header(algorithm, key_id, created_at) ==
    Dict(<< <<Str(S_alg), algorithm>>,
            <<Str(S_kid), key_id>>,
            <<Str(S_typ), Str(S_JWS)>>,
            <<Str(S_iat), created_at>> >>)

\* A signing input that leaves the payload out.
signing_input_header_only(header, payload_bytes) ==
    encode_utf8(b64url_nopad(serialize(header)) \o <<".">>)

\* f"{header_b64}.{payload_b64}".encode('utf-8')
signing_input_of(header, payload_bytes) ==
    encode_utf8(b64url_nopad(serialize(header)) \o <<".">>
                \o b64url_nopad(payload_bytes))

\* JWSDetached.sign_detached at clock reading sec, the signature being the
\* n-th one made: the container it returns.
sign_detached(payload_bytes, private_key, algorithm, key_id, sec, n) ==
    LET created_at == strftime(sec)
        signature == signature_bytes(private_key, n)
    IN  Dict(<< <<Str(S_type), Str(S_JWS_detached)>>,
                <<Str(S_alg), algorithm>>,
                <<Str(S_kid), key_id>>,
                <<Str(S_created), Str(created_at)>>,
                <<Str(S_signature), Str(b64url_nopad(signature))>> >>)

\* The message private_key.sign is called with in sign_detached.
sign_detached_input(payload_bytes, algorithm, key_id, sec) ==
    signing_input_of(create_jws_header(algorithm, key_id, Str(strftime(sec))),
                     payload_bytes)

\* A header rebuilt with the algorithm tag of sign_credential instead of the
\* container's.
verify_header_fixed_alg(signature_container) ==
    Dict(<< <<Str(S_alg), Str(S_RS256)>>,
            <<Str(S_kid), get_item(signature_container, S_kid)>>,
            <<Str(S_typ), Str(S_JWS)>>,
            <<Str(S_iat), get_item(signature_container, S_created)>> >>)

\* The header verify_detached rebuilds from the container's fields.
verify_header(signature_container) ==
    Dict(<< <<Str(S_alg), get_item(signature_container, S_alg)>>,
            <<Str(S_kid), get_item(signature_container, S_kid)>>,
            <<Str(S_typ), Str(S_JWS)>>,
            <<Str(S_iat), get_item(signature_container, S_created)>> >>)

\* The body of the try block of JWSDetached.verify_detached: "ok" where it
\* reaches return True, else the name of the exception raised.
verify_detached_try(payload_bytes, signature_container, public_key, made) ==
    IF \E f \in {S_alg, S_kid, S_created} : ~has_key(signature_container, f)
    THEN "KeyError"
    ELSE
    LET header == verify_header(signature_container)
    IN  IF serialize(header) = TypeError THEN "TypeError"
        ELSE IF ~has_key(signature_container, S_signature) THEN "KeyError"
        ELSE IF get_item(signature_container, S_signature).t # "str" THEN "TypeError"
        ELSE
        LET signing_input == signing_input_of(header, payload_bytes)
            sig_b64   == get_item(signature_container, S_signature).s
            signature == urlsafe_b64decode(
                            sig_b64 \o pad_str(4 - (Len(sig_b64) % 4)))
        IN  IF signature = BinasciiError THEN "binascii.Error"
            ELSE IF rsa_verify(public_key, signature, signing_input, made)
                 THEN "ok"
                 ELSE "InvalidSignature"

\* JWSDetached.verify_detached: every exception is caught and gives False.
verify_detached(payload_bytes, signature_container, public_key, made) ==
    verify_detached_try(payload_bytes, signature_container, public_key, made) = "ok"


(***************************************************************************)
(* DIDManager                                                              *)
(***************************************************************************)

\* The lengths at which '$' matches in s: at the end, and before a newline
\* that ends s.
dollar_positions(s) ==
    {Len(s)} \cup (IF Len(s) >= 1 /\ s[Len(s)] = "\n" THEN {Len(s) - 1} ELSE {})

\* re.match(r'^did:[a-z0-9]+:.+$', did): '.' is any character but a newline.
did_pattern_match(did) ==
    /\ Len(did) >= 4
    /\ SubSeq(did, 1, 4) = <<"d", "i", "d", ":">>
    /\ \E m \in 5..(Len(did) - 1) :
          /\ \A j \in 5..m : did[j] \in Lower \cup Digit
          /\ did[m + 1] = ":"
          /\ \E e \in dollar_positions(did) :
                /\ e >= m + 2
                /\ \A j \in (m + 2)..e : did[j] # "\n"

\* The length bound of validate_did.
MaxDidLen == 512

\* A validator without the length bound.
validate_did_unbounded(did) == did_pattern_match(did)

\* DIDManager.validate_did
validate_did(did) == did_pattern_match(did) /\ Len(did) <= MaxDidLen

\* The characters credential_system_v2 allows in a method-specific-id.
SafeIdChars == Lower \cup Upper \cup Digit \cup {".", "_", ":", "%", "-"}

\* DIDManager.validate_did of credential_system_v2:
\* re.match(r'^did:[a-z0-9]+:[a-zA-Z0-9._:%-]*[a-zA-Z0-9._-]$', did)
validate_did_v2(did) ==
    /\ Len(did) >= 4
    /\ SubSeq(did, 1, 4) = <<"d", "i", "d", ":">>
    /\ \E m \in 5..(Len(did) - 1) :
          /\ \A j \in 5..m : did[j] \in Lower \cup Digit
          /\ did[m + 1] = ":"
          /\ \E e \in dollar_positions(did) :
                /\ e >= m + 2
                /\ \A j \in (m + 2)..e : did[j] \in SafeIdChars
                /\ did[e] # ":" /\ did[e] # "%"

\* A create_key_id that leaves the key index out of the kid.
create_key_id_no_index(did, key_index) ==
    did \o <<"#", "k", "e", "y", "-", "1">>

\* DIDManager.create_key_id: f"{did}#key-{key_index}"
create_key_id(did, key_index) ==
    did \o <<"#", "k", "e", "y", "-">> \o int_to_str(key_index)

(***************************************************************************)
(* ContentOriginCredential                                                 *)
(***************************************************************************)

\* re.match(r'^[a-z]+/[a-z0-9][a-z0-9.+_-]*[a-z0-9]$', media_type)
media_type_match(media_type) ==
    \E p \in 2..Len(media_type) :
        /\ \A j \in 1..(p - 1) : media_type[j] \in Lower
        /\ media_type[p] = "/"
        /\ \E e \in dollar_positions(media_type) :
              /\ e >= p + 2
              /\ media_type[p + 1] \in Lower \cup Digit
              /\ media_type[e] \in Lower \cup Digit
              /\ \A j \in (p + 2)..(e - 1) :
                    media_type[j] \in Lower \cup Digit \cup {".", "+", "_", "-"}

\* The truth value of a Python object in an if statement.
truthy(v) ==
    CASE v.t = "null" -> FALSE
      [] v.t = "bool" -> v.b
      [] v.t = "int"  -> v.n # 0
      [] v.t = "str"  -> Len(v.s) > 0
      [] v.t = "list" -> Len(v.l) > 0
      [] v.t = "dict" -> Len(v.d) > 0

\* generate_credential_id: str(uuid.uuid4()), the n-th identifier drawn.
generate_credential_id(n) == <<"u", "u", "i", "d", "-">> \o int_to_str(n)

\* The dict create_credential builds (lines 290-317) at clock reading sec.
build_credential(version, media_type, fingerprint_bundle, creator_did, creator_type, content_metadata, revocation_pointer, chain_of_custody, extensions, sec, n) ==
    LET now_str == Str(strftime(sec))
        core == << <<Str(S_credentialId), Str(generate_credential_id(n))>>,
                   <<Str(S_version), Str(version)>>,
                   <<Str(S_mediaType), Str(media_type)>>,
                   <<Str(S_fingerprintBundle), fingerprint_bundle>>,
                   <<Str(S_creator),
                     Dict(<< <<Str(S_did), Str(creator_did)>>,
                             <<Str(S_type), creator_type>> >>)>>,
                   <<Str(S_timestamp),
                     Dict(<< <<Str(S_created),
                               IF has_key(content_metadata, S_created_timestamp)
                               THEN get_item(content_metadata, S_created_timestamp)
                               ELSE now_str>>,
                             <<Str(S_issued), now_str>> >>)>>,
                   <<Str(S_contentMetadata), content_metadata>>,
                   <<Str(S_revocationPointer), revocation_pointer>> >>
        coc == IF truthy(chain_of_custody)
               THEN << <<Str(S_chainOfCustody), chain_of_custody>> >> ELSE <<>>
        ext == IF truthy(extensions)
               THEN << <<Str(S_ext), extensions>> >> ELSE <<>>
    IN  Dict(core \o coc \o ext)

\* Checks that leave the media type alone.
create_credential_check_did_only(media_type, creator_did) ==
    IF ~validate_did(creator_did) THEN "ValueError" ELSE "ok"

\* The checks of create_credential (lines 283-288): the exception raised, or
\* "ok".
create_credential_check(media_type, creator_did) ==
    IF ~validate_did(creator_did) THEN "ValueError"
    ELSE IF ~media_type_match(media_type) THEN "ValueError"
    ELSE "ok"

\* ContentOriginCredential.check_revocation: what it returns.  The pointer
\* is read and printed, never fetched.
check_revocation_result(cred) ==
    LET revocation_url == IF has_key(cred, S_revocationPointer)
                          THEN get_item(cred, S_revocationPointer) ELSE None
    IN  IF ~truthy(revocation_url) THEN "False" ELSE "False"



(***************************************************************************)
(* The state: one ContentOriginCredential instance and its caller.         *)
(***************************************************************************)
VARIABLES
    credential,           \* self.credential, the dict create_credential also returns
    signature_container,  \* self.signature_container: None or a container
    held,                 \* the container the caller got from its last signing call
    signedAs,             \* history: the credential value and the key held was made from
    change,               \* history: the change the caller made to held since
    issued,               \* the private_key.sign calls behind the containers in use
    ids,                  \* the number of credential ids drawn
    signs,                \* the number of signatures made
    now,                  \* the clock, in seconds
    last,                 \* the last call and its outcome
    input,                \* the argument of the pure function under test
    output,               \* what the pure function under test returned
    feed,                 \* what a lookup of the revocation pointer would give now
    verified              \* history: verify_credential returned True for the credential as it is

vars == <<credential, signature_container, held, signedAs, change, issued, ids,
          signs, now, last, input, output, feed, verified>>

\* Bounds of the model: credentials built, signatures made.
MaxCreds == 1
MaxSigs == 2

\* The clock readings.
Seconds == {0, 1}

NoCall == [op |-> "none", key |-> 0, result |-> "none"]
Call(op, k, r) == [op |-> op, key |-> k, result |-> r]

(***************************************************************************)
(* Inputs                                                                  *)
(***************************************************************************)
DidZAAA   == <<"d", "i", "d", ":", "k", "e", "y", ":", "z", "A", "A", "A">>
NotADid   == <<"n", "o", "t", "a", "d", "i", "d">>
TextPlain == <<"t", "e", "x", "t", "/", "p", "l", "a", "i", "n">>
TextHtml  == <<"t", "e", "x", "t", "/", "h", "t", "m", "l">>
NoSlash   == <<"t", "e", "x", "t">>

CreatorDidInputs == {DidZAAA, NotADid}
MediaTypeInputs  == {TextPlain, NoSlash}

\* A bundle as FingerprintBundle.create_for_text returns it, the digests
\* abbreviated.
TextBundle ==
    Dict(<< <<Str(<<"s", "h", "a", "2", "5", "6", "_", "c", "a", "n", "o", "n", "i", "c", "a", "l">>), Str(<<"b", "9", "4", "d", "2", "7">>)>>,
            <<Str(<<"t", "e", "x", "t", "F", "i", "n", "g", "e", "r", "p", "r", "i", "n", "t">>), Str(<<"t", "e", "x", "t", "f", "p", ":", "b", "9", "4", "d", "2", "7">>)>>,
            <<Str(<<"a", "l", "g", "o", "r", "i", "t", "h", "m">>), Str(<<"s", "h", "a", "2", "5", "6", "_", "n", "o", "r", "m", "a", "l", "i", "z", "e", "d", "+", "t", "e", "x", "t", "f", "p">>)>>,
            <<Str(<<"c", "a", "n", "o", "n", "i", "c", "a", "l", "i", "z", "a", "t", "i", "o", "n">>), Str(<<"s", "t", "r", "i", "p", "_", "w", "h", "i", "t", "e", "s", "p", "a", "c", "e", "_", "l", "o", "w", "e", "r", "c", "a", "s", "e">>)>> >>)

Human == Str(<<"h", "u", "m", "a", "n">>)
MetadataInput == Dict(<< <<Str(S_title), Str(<<"a">>)>> >>)
PointerInput == Str(<<"h", "t", "t", "p", "s", ":", "/", "/", "r", ".", "e", "x", "a", "m", "p", "l", "e", "/", "1">>)

\* The changes a caller makes to the credential it holds: a path and the new
\* value.
Mutations ==
    { <<<<S_contentMetadata, S_title>>, Str(<<"b">>)>>,
      <<<<S_contentMetadata, S_title>>, Str(<<"a">>)>>,
      <<<<S_mediaType>>, Str(TextHtml)>> }

RECURSIVE get_path(_, _)
get_path(m, path) ==
    IF Len(path) = 0 THEN m ELSE get_path(get_item(m, path[1]), Tail(path))

\* The changes a caller makes to a container it holds: a field and its new
\* value, or Removed for a field it removes.
Removed == [t |-> "del"]

Tamperings ==
    { <<S_alg, Str(S_none)>>,
      <<S_alg, Str(S_RS256)>>,
      <<S_kid, Str(create_key_id(DidZAAA, 9))>>,
      <<S_created, Str(strftime(59))>>,
      <<S_signature, Str(<<"A", "A", "A", "A">>)>>,
      <<S_alg, Removed>>, <<S_kid, Removed>>, <<S_created, Removed>>,
      <<S_signature, Removed>> }

\* The container c with the field f set to v, or removed.
Changed(c, f, v) ==
    IF v = Removed THEN del_item(c, f) ELSE set_item(c, f, v)

(***************************************************************************)
(* Operations                                                              *)
(***************************************************************************)
Init ==
    /\ credential = Dict(<<>>)
    /\ signature_container = None
    /\ held = None
    /\ signedAs = None
    /\ change = <<>>
    /\ issued = {}
    /\ ids = 0
    /\ signs = 0
    /\ now = 0
    /\ last = NoCall
    /\ input = <<>>
    /\ output = <<>>
    /\ feed = "not_revoked"
    /\ verified = FALSE

\* A second passes.
Tick ==
    /\ now + 1 \in Seconds
    /\ now' = now + 1
    /\ last' = NoCall
    /\ UNCHANGED <<credential, signature_container, held, signedAs, change, issued,
                   ids, signs, input, output, feed, verified>>

\* A create_credential that clears self.credential before it validates.
create_credential_clear_first(media_type, fingerprint_bundle, creator_did, creator_type, content_metadata, revocation_pointer, chain_of_custody, extensions) ==
    /\ LET check == create_credential_check(media_type, creator_did)
       IN  IF check # "ok"
           THEN /\ last' = Call("create_credential", 0, check)
                /\ credential' = Dict(<<>>)
                /\ UNCHANGED <<ids, verified>>
           ELSE /\ ids < MaxCreds
                /\ credential' =
                       build_credential(CREDENTIAL_VERSION, media_type,
                           fingerprint_bundle, creator_did, creator_type,
                           content_metadata, revocation_pointer,
                           chain_of_custody, extensions, now, ids + 1)
                /\ ids' = ids + 1
                /\ verified' = FALSE
                /\ last' = Call("create_credential", 0, "ok")
    /\ UNCHANGED <<signature_container, held, signedAs, change, issued, signs, now,
                   input, output, feed>>

\* ContentOriginCredential.create_credential
create_credential(media_type, fingerprint_bundle, creator_did, creator_type, content_metadata, revocation_pointer, chain_of_custody, extensions) ==
    /\ LET check == create_credential_check(media_type, creator_did)
       IN  IF check # "ok"
           THEN /\ last' = Call("create_credential", 0, check)
                /\ UNCHANGED <<credential, ids, verified>>
           ELSE /\ ids < MaxCreds
                /\ credential' =
                       build_credential(CREDENTIAL_VERSION, media_type,
                           fingerprint_bundle, creator_did, creator_type,
                           content_metadata, revocation_pointer,
                           chain_of_custody, extensions, now, ids + 1)
                /\ ids' = ids + 1
                /\ verified' = FALSE
                /\ last' = Call("create_credential", 0, "ok")
    /\ UNCHANGED <<signature_container, held, signedAs, change, issued, signs, now,
                   input, output, feed>>

\* The n-th signature is the one in container c.
InContainer(e, c) ==
    /\ c # None
    /\ get_item(c, S_signature) = Str(b64url_nopad(signature_bytes(e.key, e.n)))

\* A container is made for the caller: the object, the signature and the
\* history.  Signatures of containers that nobody holds any more are dropped.
MakeContainer(by, payload_bytes, private_key, algorithm, key_id, kept) ==
    LET n == signs + 1
        c == sign_detached(payload_bytes, private_key, algorithm, key_id, now, n)
    IN  /\ held' = c
        /\ signs' = n
        /\ issued' = {e \in issued : InContainer(e, kept)} \cup
                {[n |-> n, key |-> private_key,
                  msg |-> sign_detached_input(payload_bytes, algorithm, key_id, now)]}
        /\ signedAs' = [by |-> by, value |-> credential, key |-> private_key,
                        container |-> c]
        /\ change' = <<>>

\* A sign_credential that also stores the signature in the credential, as
\* version 1 does.
sign_credential_embedded(private_key, creator_did, key_index) ==
    /\ signs < MaxSigs
    /\ MakeContainer("sign_credential", serialize(credential), private_key,
                     Str(S_RS256), Str(create_key_id(creator_did, key_index)), None)
    /\ signature_container' = held'
    /\ credential' = set_item(credential, S_signature, get_item(held', S_signature))
    /\ last' = Call("sign_credential", private_key, "ok")
    /\ UNCHANGED <<ids, now, input, output, feed, verified>>

\* ContentOriginCredential.sign_credential
sign_credential(private_key, creator_did, key_index) ==
    /\ signs < MaxSigs
    /\ MakeContainer("sign_credential", serialize(credential), private_key,
                     Str(S_RS256), Str(create_key_id(creator_did, key_index)), None)
    /\ signature_container' = held'
    /\ last' = Call("sign_credential", private_key, "ok")
    /\ UNCHANGED <<credential, ids, now, input, output, feed, verified>>

\* A caller calls JWSDetached.sign_detached itself, on the canonical bytes of
\* the credential.
sign_detached_call(private_key, algorithm, key_id) ==
    /\ signs < MaxSigs
    /\ MakeContainer("sign_detached", serialize(credential), private_key,
                     algorithm, key_id, signature_container)
    /\ last' = Call("sign_detached", private_key, "ok")
    /\ UNCHANGED <<credential, signature_container, ids, now, input, output, feed, verified>>

\* A caller changes a field of the credential it holds.
MutateCredential(path, v) ==
    /\ ids > 0
    /\ get_path(credential, path) # v
    /\ credential' = set_path(credential, path, v)
    /\ verified' = FALSE
    /\ last' = Call("mutate", 0, "ok")
    /\ UNCHANGED <<signature_container, held, signedAs, change, issued, ids, signs,
                   now, input, output, feed>>

\* A caller changes or removes one field of the container it holds; the
\* container sign_credential returned is self.signature_container itself.
TamperContainer(f, v) ==
    /\ held # None
    /\ change = <<>>
    /\ get_item(held, f) # v
    /\ held' = Changed(held, f, v)
    /\ change' = <<f, v>>
    /\ signature_container' =
          IF signedAs.by = "sign_credential" THEN held' ELSE signature_container
    /\ last' = Call("tamper", 0, "ok")
    /\ UNCHANGED <<credential, signedAs, issued, ids, signs, now, input, output, feed, verified>>

\* ContentOriginCredential.verify_credential: "True", "False", or the
\* exception CanonicalJSON.serialize raises outside the try block.
verify_credential_result(cred, container, public_key, made) ==
    LET canonical_bytes == serialize(cred)
    IN  IF canonical_bytes = TypeError THEN "TypeError"
        ELSE IF verify_detached(canonical_bytes, container, public_key, made)
             THEN "True" ELSE "False"

\* verify_credential(self.credential, held, public_key)
verify_credential(public_key) ==
    /\ held # None
    /\ last' = Call("verify_credential", public_key,
                    verify_credential_result(credential, held, public_key, issued))
    /\ verified' = (last'.result = "True")
    /\ UNCHANGED <<credential, signature_container, held, signedAs, change, issued,
                   ids, signs, now, input, output, feed>>

\* A check_revocation that records the lookup in the credential.
check_revocation_writes_back ==
    /\ credential' = set_item(credential, S_revocationPointer, Str(<<"c", "h", "e", "c", "k", "e", "d">>))
    /\ last' = Call("check_revocation", 0, check_revocation_result(credential))
    /\ UNCHANGED <<signature_container, held, signedAs, change, issued, ids, signs,
                   now, input, output, feed, verified>>

\* check_revocation(self.credential)
check_revocation ==
    /\ last' = Call("check_revocation", 0, check_revocation_result(credential))
    /\ UNCHANGED <<credential, signature_container, held, signedAs, change, issued,
                   ids, signs, now, input, output, feed, verified>>

\* check_revocation(self.credential) is abandoned before it returns: it has
\* written nothing up to any point of its body.
check_revocation_abandoned ==
    /\ last' = Call("check_revocation", 0, "abandoned")
    /\ UNCHANGED <<credential, signature_container, held, signedAs, change, issued,
                   ids, signs, now, input, output, feed, verified>>

\* A second sign_credential that fills in the dict the instance already has
\* instead of making a new one.
sign_credential_again_in_place(private_key, creator_did, key_index) ==
    /\ signs < MaxSigs
    /\ held # None
    /\ held = signature_container
    /\ LET n == signs + 1
           kid == Str(create_key_id(creator_did, key_index))
           canonical_bytes == serialize(credential)
       IN  /\ signature_container' =
                 sign_detached(canonical_bytes, private_key, Str(S_RS256), kid, now, n)
           /\ issued' = issued \cup
                 {[n |-> n, key |-> private_key,
                   msg |-> sign_detached_input(canonical_bytes, Str(S_RS256), kid, now)]}
           /\ signs' = n
    /\ last' = Call("sign_credential", private_key, "ok")
    /\ held' = signature_container'
    /\ UNCHANGED <<credential, signedAs, change, ids, now, input, output, feed,
                   verified>>

\* ContentOriginCredential.sign_credential is called again while the caller
\* keeps the container the call before returned: sign_detached makes a new
\* dict, self.signature_container is bound to it, the returned value is not
\* kept.
sign_credential_again(private_key, creator_did, key_index) ==
    /\ signs < MaxSigs
    /\ held # None
    /\ held = signature_container
    /\ LET n == signs + 1
           kid == Str(create_key_id(creator_did, key_index))
           canonical_bytes == serialize(credential)
       IN  /\ signature_container' =
                 sign_detached(canonical_bytes, private_key, Str(S_RS256), kid, now, n)
           /\ issued' = issued \cup
                 {[n |-> n, key |-> private_key,
                   msg |-> sign_detached_input(canonical_bytes, Str(S_RS256), kid, now)]}
           /\ signs' = n
    /\ last' = Call("sign_credential", private_key, "ok")
    /\ UNCHANGED <<credential, held, signedAs, change, ids, now, input, output, feed,
                   verified>>

\* One of several callers that share an instance runs
\*     credential = coc.create_credential(...)
\*     container = coc.sign_credential(private_key, did)
\* and the other callers run between its steps.  sign_credential reads
\* self.credential when it starts, binds self.signature_container, and reads
\* self.signature_container again for its return value.  output lists what
\* was returned, and to which caller.
caller(c) ==
    LET done(op) == \E i \in 1..Len(output) : output[i].caller = c /\ output[i].op = op
        step(op, k, value) == [caller |-> c, op |-> op, key |-> k, value |-> value]
    IN  /\ \/ /\ ~done("create_credential")
              /\ credential' =
                     build_credential(CREDENTIAL_VERSION, TextPlain, TextBundle, DidZAAA,
                         Human, MetadataInput, PointerInput, None, None, now, ids + 1)
              /\ ids' = ids + 1
              /\ output' = Append(output, step("create_credential", 0, credential'))
              /\ last' = Call("create_credential", 0, "ok")
              /\ UNCHANGED <<signature_container, issued, signs>>
           \/ \E private_key \in Keys :
              /\ done("create_credential")
              /\ ~done("sign_detached")
              /\ LET n == signs + 1
                     kid == Str(create_key_id(DidZAAA, 1))
                     canonical_bytes == serialize(credential)
                 IN  /\ signature_container' =
                           sign_detached(canonical_bytes, private_key, Str(S_RS256), kid, now, n)
                     /\ issued' = issued \cup
                           {[n |-> n, key |-> private_key,
                             msg |-> sign_detached_input(canonical_bytes, Str(S_RS256), kid, now)]}
                     /\ signs' = n
              /\ output' = Append(output, step("sign_detached", private_key, None))
              /\ last' = Call("sign_detached", private_key, "ok")
              /\ UNCHANGED <<credential, ids>>
           \/ /\ done("sign_detached")
              /\ ~done("sign_credential")
              /\ output' = Append(output,
                     step("sign_credential",
                          output[CHOOSE i \in 1..Len(output) :
                              output[i].caller = c /\ output[i].op = "sign_detached"].key,
                          signature_container))
              /\ last' = Call("sign_credential", 0, "ok")
              /\ UNCHANGED <<credential, signature_container, issued, ids, signs>>
        /\ UNCHANGED <<held, signedAs, change, now, input, feed, verified>>

Create ==
    \E mt \in MediaTypeInputs, did \in CreatorDidInputs :
        create_credential(mt, TextBundle, did, Human, MetadataInput,
                          PointerInput, None, None)

Next ==
    \/ Tick
    \/ Create
    \/ \E k \in Keys : sign_credential(k, DidZAAA, 1)
    \/ \E m \in Mutations : MutateCredential(m[1], m[2])
    \/ \E k \in Keys : verify_credential(k)

Spec == Init /\ [][Next]_vars

(***************************************************************************)
(* Properties of signing and verifying a credential                        *)
(***************************************************************************)

\* verify_credential has just been called on the container sign_credential
\* returned, which nobody changed.
VerifiedSigned ==
    /\ last.op = "verify_credential"
    /\ signedAs # None
    /\ signedAs.by = "sign_credential"
    /\ held = signedAs.container

\* C1: a credential signed with the private key of a pair verifies to True
\* under the public key of that pair, as long as neither the credential nor
\* the container has changed since.
SignThenVerify ==
    (VerifiedSigned /\ credential = signedAs.value /\ last.key = signedAs.key)
        => last.result = "True"

\* A credential that was created and signed has verified under its key pair,
\* the signature being one whose base64url text needs padding.
SignThenVerifyReached ==
    /\ VerifiedSigned
    /\ ids > 0
    /\ credential = signedAs.value
    /\ last.key = signedAs.key
    /\ Len(get_item(held, S_signature).s) % 4 # 0
    /\ last.result = "True"

\* C2: while the value of any field of the credential, nested ones included,
\* differs from the value that was signed, verification of the credential
\* against the container and the matching public key returns False.
MutationFailsVerify ==
    (VerifiedSigned /\ credential # signedAs.value /\ last.key = signedAs.key)
        => last.result = "False"

\* The nested title of a signed credential was changed and the credential
\* then verified under the matching key.
MutationFailsVerifyReached ==
    /\ VerifiedSigned
    /\ last.key = signedAs.key
    /\ has_key(signedAs.value, S_contentMetadata)
    /\ get_path(credential, <<S_contentMetadata, S_title>>)
           # get_path(signedAs.value, <<S_contentMetadata, S_title>>)
    /\ last.result = "False"

\* C3: verification under the public key of a pair other than the one that
\* signed returns False.
WrongKeyFailsVerify ==
    (VerifiedSigned /\ last.key # signedAs.key) => last.result = "False"

\* An unchanged signed credential was verified under another pair's key.
WrongKeyFailsVerifyReached ==
    /\ VerifiedSigned
    /\ ids > 0
    /\ credential = signedAs.value
    /\ last.key # signedAs.key
    /\ last.result = "False"

\* C10: a create_credential call that raises ValueError leaves
\* self.credential and self.signature_container as they were.
RejectedCreateChangesNothing ==
    [][(last'.op = "create_credential" /\ last'.result = "ValueError")
          => (credential' = credential
              /\ signature_container' = signature_container)]_vars

\* create_credential has raised ValueError on an instance that holds a
\* credential and a signature.
RejectedCreateReached ==
    /\ last.op = "create_credential"
    /\ last.result = "ValueError"
    /\ ids > 0
    /\ signature_container # None

\* Signing and verification at the level of JWSDetached, the container
\* changed on its way to the verifier.
NextJws ==
    \/ create_credential(TextPlain, TextBundle, DidZAAA, Human, MetadataInput,
                         PointerInput, None, None)
    \/ \E k \in Keys, alg \in {Str(S_RS256), Str(S_none)} :
          sign_detached_call(k, alg, Str(create_key_id(DidZAAA, 1)))
    \/ \E tm \in Tamperings : TamperContainer(tm[1], tm[2])
    \/ \E k \in Keys : verify_credential(k)

SpecJws == Init /\ [][NextJws]_vars

(***************************************************************************)
(* Properties of verification against a changed container                  *)
(***************************************************************************)

\* verify_credential has just been called on a container sign_detached made
\* over the credential as it still is, under the key of the signing pair.
VerifiedDetached ==
    /\ last.op = "verify_credential"
    /\ signedAs # None
    /\ credential = signedAs.value
    /\ last.key = signedAs.key

\* The header fields a container carries next to the signature.
HeaderFields == {S_alg, S_kid, S_created}

\* C4: after the "alg", "kid" or "created" field of a container has been
\* given another value, verification returns False, the payload and the key
\* being the ones of the signing.
HeaderChangeFailsVerify ==
    (VerifiedDetached /\ change # <<>> /\ change[1] \in HeaderFields
       /\ change[2] # Removed)
        => last.result = "False"

\* The "alg" field of a container was given another value and the container
\* then verified.
HeaderChangeFailsVerifyReached ==
    /\ VerifiedDetached
    /\ change # <<>>
    /\ change[1] = S_alg
    /\ change[2] # Removed
    /\ get_item(held, S_alg) # get_item(signedAs.container, S_alg)
    /\ last.result = "False"

\* The algorithm tags the program signs with.
SupportedAlgorithms == {Str(S_RS256)}

\* C5: verification of a container whose "alg" is not a supported algorithm
\* returns False, also where sign_detached was called with that algorithm.
UnsupportedAlgFailsVerify ==
    (last.op = "verify_credential" /\ has_key(held, S_alg)
       /\ get_item(held, S_alg) \notin SupportedAlgorithms)
        => last.result = "False"

\* A container lacks a field verify_detached reads.
Malformed(c) == \E f \in HeaderFields \cup {S_signature} : ~has_key(c, f)

\* C6: verification of a container that lacks a required field ends in an
\* outcome other than False, the outcome of a signature mismatch.
MalformedIsDistinct ==
    (last.op = "verify_credential" /\ Malformed(held)) => last.result # "False"


(***************************************************************************)
(* DIDManager.validate_did as a function of its argument                   *)
(***************************************************************************)
Did_key_zABC123 == <<"d", "i", "d", ":", "k", "e", "y", ":", "z", "A", "B", "C", "1", "2", "3">>
Did_web_example == <<"d", "i", "d", ":", "w", "e", "b", ":", "e", "x", "a", "m", "p", "l", "e", ".", "c", "o", "m", ":", "c", "r", "e", "a", "t", "o", "r", "s", ":", "4", "2">>
Did_no_method   == <<"d", "i", "d", ":", ":">>

DidPrefixes == {<<"d", "i", "d", ":">>, <<"D", "I", "D", ":">>, <<"d", "i", "d">>}
DidMethods  == {<<"k", "e", "y">>, <<"w", "e", "b">>, <<"K", "e", "y">>, <<"k", "3", "y">>, <<>>}
DidIds ==
    {<<"z", "A", "B", "C", "1", "2", "3">>,
     <<"e", "x", "a", "m", "p", "l", "e", ".", "c", "o", "m", ":", "c", "r", "e", "a", "t", "o", "r", "s", ":", "4", "2">>,
     <<"a", " ", "b">>, <<"a", "\n", "b">>, <<"a", "b", "c", "\n">>, <<"\n">>,
     <<"a", "\"", "b">>, <<"a", "#", "b">>, <<"a", "/", "b">>, <<"a", "%", "2", "0", "b">>,
     <<"z", "-", "_", ".", "9">>, <<>>}

\* How far past the length bound the long identifiers go.
MaxOver == 3

\* An identifier of n characters that matches the pattern.
LongDid(n) == <<"d", "i", "d", ":", "k", "e", "y", ":">> \o [i \in 1..(n - 8) |-> "a"]

DidInputs ==
    {p \o m \o <<":">> \o i : p \in DidPrefixes, m \in DidMethods, i \in DidIds}
        \cup {NotADid}
        \cup {LongDid(n) : n \in (MaxDidLen - 1)..(MaxDidLen + MaxOver)}

InitDid ==
    /\ credential = Dict(<<>>)
    /\ signature_container = None
    /\ held = None
    /\ signedAs = None
    /\ change = <<>>
    /\ issued = {}
    /\ ids = 0
    /\ signs = 0
    /\ now = 0
    /\ last = NoCall
    /\ input \in DidInputs
    /\ output = <<>>
    /\ feed = "not_revoked"
    /\ verified = FALSE

\* DIDManager.validate_did(input), credential_system_v3
validate_did_call ==
    /\ last' = Call("validate_did", 0, IF validate_did(input) THEN "True" ELSE "False")
    /\ UNCHANGED <<credential, signature_container, held, signedAs, change, issued,
                   ids, signs, now, input, output, feed, verified>>

\* DIDManager.validate_did(input), credential_system_v2
validate_did_v2_call ==
    /\ last' = Call("validate_did_v2", 0,
                    IF validate_did_v2(input) THEN "True" ELSE "False")
    /\ UNCHANGED <<credential, signature_container, held, signedAs, change, issued,
                   ids, signs, now, input, output, feed, verified>>

NextDid == validate_did_call \/ validate_did_v2_call

SpecDid == InitDid /\ [][NextDid]_vars

\* C8: validate_did accepts did:key:zABC123 and
\* did:web:example.com:creators:42, and rejects notadid, did:: and every
\* identifier of more than 512 characters.
ValidateDidExamples ==
    last.op = "validate_did" =>
        /\ input \in {Did_key_zABC123, Did_web_example} => last.result = "True"
        /\ input \in {NotADid, Did_no_method} => last.result = "False"
        /\ Len(input) > MaxDidLen => last.result = "False"

\* validate_did has rejected an identifier of 513 characters that matches the
\* pattern.
ValidateDidExamplesReached ==
    /\ last.op = "validate_did"
    /\ Len(input) = MaxDidLen + 1
    /\ did_pattern_match(input)
    /\ last.result = "False"

\* The form did:<method>:<method-specific-id>, the method a non-empty
\* lower-case alphanumeric token, the id non-empty and of safe characters.
WellFormedDid(did) ==
    /\ Len(did) >= 4
    /\ SubSeq(did, 1, 4) = <<"d", "i", "d", ":">>
    /\ \E m \in 5..(Len(did) - 1) :
          /\ \A j \in 5..m : did[j] \in Lower \cup Digit
          /\ did[m + 1] = ":"
          /\ Len(did) >= m + 2
          /\ \A j \in (m + 2)..Len(did) : did[j] \in SafeIdChars

\* C9: validate_did accepts an identifier only if it is well formed, so it
\* rejects every identifier whose method-specific-id has a character outside
\* the safe class (space, newline, quote, '#', '/').
ValidateDidSafeChars ==
    (last.op = "validate_did" /\ last.result = "True") => WellFormedDid(input)

(***************************************************************************)
(* CanonicalJSON.serialize as a function of its argument                   *)
(***************************************************************************)
\* Records to encode: str keys with nesting, escapes and a character outside
\* ASCII; a dict inside a list; int keys; int keys below a str key; str and
\* int keys in one dict.
RecordStrKeys ==
    Dict(<< <<Str(<<"b">>), Str(<<"x">>)>>,
            <<Str(<<"a">>), Dict(<< <<Str(<<"d">>), Int_(1)>>,
                                    <<Str(<<"c">>), List(<<Bool(TRUE), None,
                                        Str(<<EAcute, "\"", "\n">>)>>)>> >>)>>,
            <<Str(<<"B">>), Int_(-5)>>,
            <<Str(<<"a", "a">>), Dict(<<>>)>> >>)
RecordInList ==
    Dict(<< <<Str(<<"l">>), List(<<Dict(<< <<Str(<<"y">>), Int_(1)>>,
                                          <<Str(<<"x">>), Bool(FALSE)>> >>),
                                   Int_(0)>>)>>,
            <<Str(<<"k">>), Str(<<>>)>> >>)
RecordIntKeys ==
    Dict(<< <<Int_(2), Str(<<"a">>)>>,
            <<Int_(10), Str(<<"b">>)>>,
            <<Int_(1), None>> >>)
RecordIntKeysBelow ==
    Dict(<< <<Str(<<"p">>), Dict(<< <<Int_(10), Int_(1)>>, <<Int_(9), Int_(2)>> >>)>>,
            <<Str(<<"j">>), Int_(0)>> >>)
RecordMixedKeys ==
    Dict(<< <<Int_(1), Str(<<"a">>)>>, <<Str(<<"b">>), Int_(2)>> >>)

CanonInputs == <<RecordStrKeys, RecordInList, RecordIntKeys, RecordIntKeysBelow,
                 RecordMixedKeys>>

\* The sequence q with its items i and i + 1 exchanged.
swap_items(q, i) ==
    [j \in 1..Len(q) |-> IF j = i THEN q[i + 1] ELSE IF j = i + 1 THEN q[i] ELSE q[j]]

\* The values that are v but for the order of two neighbouring items of one
\* dict, at any depth.
RECURSIVE Reorderings(_)
Reorderings(v) ==
    IF v.t = "dict"
    THEN {Dict(swap_items(v.d, i)) : i \in 1..(Len(v.d) - 1)}
         \cup UNION {{Dict([v.d EXCEPT ![i] = <<v.d[i][1], w>>]) :
                        w \in Reorderings(v.d[i][2])} : i \in 1..Len(v.d)}
    ELSE IF v.t = "list"
    THEN UNION {{List([v.l EXCEPT ![i] = w]) : w \in Reorderings(v.l[i])} :
                    i \in 1..Len(v.l)}
    ELSE {}

InitCanon ==
    /\ credential = Dict(<<>>)
    /\ signature_container = None
    /\ held = None
    /\ signedAs = None
    /\ change = <<>>
    /\ issued = {}
    /\ ids = 0
    /\ signs = 0
    /\ now = 0
    /\ last = NoCall
    /\ \E n \in 1..Len(CanonInputs) : input = CanonInputs[n]
    /\ output = <<>>
    /\ feed = "not_revoked"
    /\ verified = FALSE

\* output = CanonicalJSON.serialize(input)
serialize_call ==
    /\ output' = serialize(input)
    /\ last' = Call("serialize", 0, IF output' = TypeError THEN "TypeError" ELSE "ok")
    /\ UNCHANGED <<credential, signature_container, held, signedAs, change, issued,
                   ids, signs, now, input, feed, verified>>

\* The same record is built with its keys inserted in another order.
Reorder ==
    /\ \E w \in Reorderings(input) : input' = w
    /\ last' = Call("reorder", 0, "ok")
    /\ UNCHANGED <<credential, signature_container, held, signedAs, change, issued,
                   ids, signs, now, output, feed, verified>>

\* input = json.loads(output)
Reparse ==
    /\ output # <<>>
    /\ output # TypeError
    /\ input' = loads(output)
    /\ last' = Call("loads", 0, "ok")
    /\ UNCHANGED <<credential, signature_container, held, signedAs, change, issued,
                   ids, signs, now, output, feed, verified>>

NextCanon == serialize_call \/ Reorder \/ Reparse

SpecCanon == InitCanon /\ [][NextCanon]_vars

\* C7: the bytes serialize returned for a record are the bytes it returns for
\* the record with its keys in any other insertion order, at any depth, and
\* for the record parsed from those bytes.
CanonicalStable ==
    output # <<>> => serialize(input) = output

(***************************************************************************)
(* Creation, signing, verification and the revocation check, in any order  *)
(***************************************************************************)
NextRevoke ==
    \/ Create
    \/ \E k \in Keys : sign_credential(k, DidZAAA, 1)
    \/ sign_credential(1, Did_web_example, 1)
    \/ \E k \in Keys, i \in {1, 2} : sign_credential_again(k, DidZAAA, i)
    \/ \E k \in Keys : verify_credential(k)
    \/ check_revocation
    \/ check_revocation_abandoned

SpecRevoke == Init /\ [][NextRevoke]_vars

\* C11: once create_credential has built a credential, the credential the
\* instance holds has, after any create_credential, sign_credential,
\* verify_credential and check_revocation calls, a creator.did that
\* validate_did accepts and a mediaType of the type/subtype grammar.
HeldCredentialWellFormed ==
    ids > 0 =>
        /\ validate_did(get_path(credential, <<S_creator, S_did>>).s)
        /\ media_type_match(get_item(credential, S_mediaType).s)

\* A credential was built, signed, verified and checked for revocation, and
\* a later create_credential call was then refused.
HeldCredentialWellFormedReached ==
    /\ ids > 0
    /\ verified
    /\ last.op = "create_credential"
    /\ last.result = "ValueError"

\* C16: a check_revocation call, returned or abandoned, leaves the
\* credential, which is the one passed to it, and the signature container as
\* they were, and with them the result of verifying under every key.
CheckRevocationReadOnly ==
    [][last'.op = "check_revocation" =>
          /\ credential' = credential
          /\ signature_container' = signature_container
          /\ held' = held
          /\ held # None =>
                \A k \in Keys :
                    verify_credential_result(credential', held', k, issued')
                        = verify_credential_result(credential, held, k, issued)]_vars

\* The revocation check of a credential that had verified was abandoned.
CheckRevocationReadOnlyReached ==
    /\ verified
    /\ signature_container # None
    /\ last.op = "check_revocation"
    /\ last.result = "abandoned"

\* C18: check_revocation is called for a credential only after
\* verify_credential has returned True for it: never for a credential that
\* was not verified, and never after a verification that failed.
RevocationOnlyAfterVerify ==
    last.op = "check_revocation" => verified

(***************************************************************************)
(* create_credential over its arguments, and the revocation feed           *)
(***************************************************************************)
\* The creator kinds create_credential documents.
CreatorTypes == {Human, Str(<<"a", "i", "-", "s", "y", "s", "t", "e", "m">>), Str(<<"h", "u", "m", "a", "n", "-", "a", "i", "-", "c", "o", "l", "l", "a", "b", "o", "r", "a", "t", "i", "o", "n">>)}

\* create_credential with a fingerprint bundle that is given, None or empty,
\* a creator type of the documented ones or another, and a revocation
\* pointer that is given, None or empty.
CreateAny ==
    \E mt \in MediaTypeInputs, did \in CreatorDidInputs,
       fb \in {TextBundle, None, Dict(<<>>)},
       ct \in {Human, Str(<<"a", "i", "-", "s", "y", "s", "t", "e", "m">>), Str(<<"r", "o", "b", "o", "t">>)},
       rp \in {PointerInput, None, Str(<<>>)} :
        create_credential(mt, fb, did, ct, MetadataInput, rp, None, None)

\* The feed behind the revocation pointer lists the credential as revoked or
\* not, or cannot be reached.
FeedChanges ==
    /\ \E f \in {"not_revoked", "revoked", "unreachable"} : f # feed /\ feed' = f
    /\ last' = NoCall
    /\ UNCHANGED <<credential, signature_container, held, signedAs, change, issued,
                   ids, signs, now, input, output, verified>>

NextCreate == CreateAny \/ Tick \/ FeedChanges \/ check_revocation

SpecCreate == Init /\ [][NextCreate]_vars

\* C12: create_credential refuses a fingerprint bundle that is None or
\* empty, so every credential it has built has a non-empty fingerprintBundle.
FingerprintBundleRequired ==
    ids > 0 => truthy(get_item(credential, S_fingerprintBundle))

\* C13: every built credential has a non-empty revocationPointer: the one the
\* caller supplied, or else one derived from the credential's credentialId
\* (it ends with the identifier).
RevocationPointerAlwaysSet ==
    ids > 0 =>
        LET rp == get_item(credential, S_revocationPointer)
            id == get_item(credential, S_credentialId).s
        IN  /\ truthy(rp)
            /\ rp # PointerInput =>
                  /\ rp.t = "str"
                  /\ Len(rp.s) > Len(id)
                  /\ SubSeq(rp.s, Len(rp.s) - Len(id) + 1, Len(rp.s)) = id

\* C14: the creator kind of every built credential is one of human,
\* ai-system, human-ai-collaboration.
CreatorTypeInClosedSet ==
    ids > 0 => get_path(credential, <<S_creator, S_type>>) \in CreatorTypes

\* C15: for a pointer that cannot be dereferenced check_revocation does not
\* return False, the result of a lookup that found the credential not
\* revoked.
UnreachableIsNotFalse ==
    (last.op = "check_revocation" /\ feed = "unreachable") => last.result # "False"

(***************************************************************************)
(* credential_system.py (version 1): the signature and the revocation      *)
(* status are fields of the credential itself                              *)
(***************************************************************************)
\* json.dumps(obj, sort_keys=True): separators ', ' and ': ', characters
\* outside ASCII escaped (ensure_ascii), TypeError for keys that do not
\* compare.
RECURSIVE dumps_v1(_)
dumps_v1(v) ==
    LET esc(s) ==
            <<"\"">> \o
            Flatten([i \in 1..Len(s) |->
                IF s[i] = "\"" THEN <<"\\", "\"">>
                ELSE IF s[i] = "\\" THEN <<"\\", "\\">>
                ELSE IF s[i] = "\n" THEN <<"\\", "n">>
                ELSE IF s[i] = EAcute THEN <<"\\", "u", "0", "0", "e", "9">>
                ELSE <<s[i]>>]) \o
            <<"\"">>
        join(parts) ==
            Flatten([i \in 1..Len(parts) |->
                IF i = 1 THEN parts[i] ELSE <<",", " ">> \o parts[i]])
    IN  CASE v.t = "str"  -> esc(v.s)
          [] v.t = "int"  -> int_to_str(v.n)
          [] v.t = "bool" -> IF v.b THEN <<"t", "r", "u", "e">>
                             ELSE <<"f", "a", "l", "s", "e">>
          [] v.t = "null" -> <<"n", "u", "l", "l">>
          [] v.t = "list" ->
                LET parts == [i \in 1..Len(v.l) |-> dumps_v1(v.l[i])] \o <<>>
                IN  IF \E i \in 1..Len(parts) : parts[i] = TypeError THEN TypeError
                    ELSE <<"[">> \o join(parts) \o <<"]">>
          [] v.t = "dict" ->
                IF ~sort_comparable(v.d) THEN TypeError
                ELSE
                LET items == sort_items(v.d)
                    vals  == [i \in 1..Len(items) |-> dumps_v1(items[i][2])] \o <<>>
                    parts == [i \in 1..Len(items) |->
                                esc(key_text(items[i][1])) \o <<":", " ">> \o vals[i]]
                IN  IF \E i \in 1..Len(vals) : vals[i] = TypeError THEN TypeError
                    ELSE <<"{">> \o join(parts) \o <<"}">>

\* The PEM text of the public key of pair k.
public_pem(k) == <<"P", "E", "M", "-">> \o int_to_str(k)

\* ContentOriginCredential.create_credential of version 1, the optional
\* arguments left out.
create_credential_v1(content_type, content_hash, creator_did, creator_type, content_metadata) ==
    /\ IF ~validate_did_v2(creator_did)
       THEN /\ last' = Call("create_credential", 0, "ValueError")
            /\ UNCHANGED <<credential, ids, verified>>
       ELSE /\ ids < MaxCreds
            /\ LET now_str == Str(SubSeq(strftime(now), 1, 19) \o <<"+", "0", "0", ":", "0", "0">>)
               IN  credential' = Dict(<<
                      <<Str(S_credentialId), Str(generate_credential_id(ids + 1))>>,
                      <<Str(S_version), Str(<<"1", ".", "0", ".", "0">>)>>,
                      <<Str(<<"c", "o", "n", "t", "e", "n", "t", "T", "y", "p", "e">>), content_type>>,
                      <<Str(<<"c", "o", "n", "t", "e", "n", "t", "H", "a", "s", "h">>), content_hash>>,
                      <<Str(S_creator), Dict(<< <<Str(S_did), Str(creator_did)>>,
                                                <<Str(S_type), creator_type>> >>)>>,
                      <<Str(S_timestamp),
                        Dict(<< <<Str(S_created),
                                  IF has_key(content_metadata, S_created_timestamp)
                                  THEN get_item(content_metadata, S_created_timestamp)
                                  ELSE now_str>>,
                                <<Str(<<"c", "r", "e", "d", "e", "n", "t", "i", "a", "l", "I", "s", "s", "u", "e", "d">>), now_str>> >>)>>,
                      <<Str(S_contentMetadata), content_metadata>>,
                      <<Str(S_status), Dict(<< <<Str(<<"i", "s", "A", "c", "t", "i", "v", "e">>), Bool(TRUE)>>,
                                               <<Str(S_revoked), Bool(FALSE)>> >>)>> >>)
            /\ ids' = ids + 1
            /\ verified' = FALSE
            /\ last' = Call("create_credential", 0, "ok")
    /\ UNCHANGED <<signature_container, held, signedAs, change, issued, signs, now,
                   input, output, feed>>

\* ContentOriginCredential.sign_credential of version 1: the signature goes
\* into the credential, under "verification".
sign_credential_v1(private_key) ==
    /\ IF ~has_key(credential, S_credentialId)
       THEN /\ last' = Call("sign_credential", private_key, "KeyError")
            /\ UNCHANGED <<credential, issued, signs, signedAs>>
       ELSE /\ signs < MaxSigs
            /\ LET n == signs + 1
                   credential_bytes == encode_utf8(dumps_v1(credential))
                   b64 == [i \in 1..Len(urlsafe_b64encode(signature_bytes(private_key, n))) |->
                             LET c == urlsafe_b64encode(signature_bytes(private_key, n))[i]
                             IN  IF c = "-" THEN "+" ELSE IF c = "_" THEN "/" ELSE c]
                   verification == Dict(<<
                      <<Str(<<"m", "e", "t", "h", "o", "d">>), Str(<<"d", "i", "g", "i", "t", "a", "l", "-", "s", "i", "g", "n", "a", "t", "u", "r", "e">>)>>,
                      <<Str(S_signature), Str(b64)>>,
                      <<Str(<<"p", "u", "b", "l", "i", "c", "K", "e", "y">>), Str(public_pem(private_key))>>,
                      <<Str(<<"v", "e", "r", "i", "f", "i", "c", "a", "t", "i", "o", "n", "U", "r", "l">>),
                        Str(<<"h", "t", "t", "p", "s", ":", "/", "/", "v", "e", "r", "i", "f", "y", ".", "e", "x", "a", "m", "p", "l", "e", ".", "c", "o", "m", "/", "c", "r", "e", "d", "e", "n", "t", "i", "a", "l", "s", "/">> \o get_item(credential, S_credentialId).s)>> >>)
               IN  /\ credential' = set_item(credential, S_verification, verification)
                   /\ issued' = issued \cup
                         {[n |-> n, key |-> private_key, msg |-> credential_bytes]}
                   /\ signs' = n
                   /\ signedAs' = [by |-> "sign_credential", value |-> credential,
                                   key |-> private_key, container |-> verification]
            /\ last' = Call("sign_credential", private_key, "ok")
    /\ UNCHANGED <<signature_container, held, change, ids, now, input, output, feed,
                   verified>>

\* ContentOriginCredential.verify_credential of version 1 on self.credential,
\* with the PEM text of pair k, or with none (k = 0): the key is then the one
\* in the credential.  Everything it raises is caught and gives False.
verify_credential_v1(k) ==
    /\ LET verification == IF has_key(credential, S_verification)
                           THEN get_item(credential, S_verification) ELSE Dict(<<>>)
           get(f) == IF has_key(verification, f) THEN get_item(verification, f) ELSE None
           pem == IF k = 0 THEN get(<<"p", "u", "b", "l", "i", "c", "K", "e", "y">>) ELSE Str(public_pem(k))
           signature_b64 == get(S_signature)
           credential_bytes == dumps_v1(del_item(credential, S_verification))
           result ==
               IF get(<<"m", "e", "t", "h", "o", "d">>) # Str(<<"d", "i", "g", "i", "t", "a", "l", "-", "s", "i", "g", "n", "a", "t", "u", "r", "e">>) THEN "False"
               ELSE IF ~truthy(pem) THEN "False"
               ELSE IF \A j \in Keys : pem # Str(public_pem(j)) THEN "False"
               ELSE IF ~truthy(signature_b64) THEN "False"
               ELSE
               LET public_key == CHOOSE j \in Keys : pem = Str(public_pem(j))
                   signature == urlsafe_b64decode(
                       SelectSeq(signature_b64.s, LAMBDA c : c \notin {"-", "_"}))
               IN  IF signature = BinasciiError \/ credential_bytes = TypeError
                   THEN "False"
                   ELSE IF rsa_verify(public_key, signature,
                                      encode_utf8(credential_bytes), issued)
                        THEN "True" ELSE "False"
       IN  /\ last' = Call("verify_credential", k, result)
           /\ verified' = (result = "True")
    /\ UNCHANGED <<credential, signature_container, held, signedAs, change, issued,
                   ids, signs, now, input, output, feed>>

\* ContentOriginCredential.revoke_credential of version 1
revoke_credential(reason) ==
    /\ IF ~has_key(credential, S_status)
       THEN /\ last' = Call("revoke_credential", 0, "KeyError")
            /\ UNCHANGED credential
       ELSE /\ credential' =
                  set_path(set_path(set_path(set_path(credential,
                      <<S_status, <<"i", "s", "A", "c", "t", "i", "v", "e">>>>, Bool(FALSE)),
                      <<S_status, S_revoked>>, Bool(TRUE)),
                      <<S_status, <<"r", "e", "v", "o", "c", "a", "t", "i", "o", "n", "R", "e", "a", "s", "o", "n">>>>, reason),
                      <<S_status, <<"r", "e", "v", "o", "c", "a", "t", "i", "o", "n", "D", "a", "t", "e">>>>,
                      Str(SubSeq(strftime(now), 1, 19) \o <<"+", "0", "0", ":", "0", "0">>))
            /\ last' = Call("revoke_credential", 0, "ok")
    /\ UNCHANGED <<signature_container, held, signedAs, change, issued, ids, signs,
                   now, input, output, feed, verified>>

NextV1 ==
    \/ Tick
    \/ \E did \in CreatorDidInputs :
          create_credential_v1(Str(<<"a", "r", "t", "i", "c", "l", "e">>), Dict(<<>>), did, Human, MetadataInput)
    \/ \E k \in Keys : sign_credential_v1(k)
    \/ \E k \in Keys \cup {0} : verify_credential_v1(k)
    \/ revoke_credential(Str(<<"r">>))

SpecV1 == Init /\ [][NextV1]_vars

\* C17: revocation is not written into the credential: revoke_credential
\* changes no field of the credential, so a signed credential is the same,
\* and verifies the same, before and after it was revoked.
RevocationNotWrittenBack ==
    [][last'.op = "revoke_credential" => credential' = credential]_vars

(***************************************************************************)
(* The signature is detached                                               *)
(***************************************************************************)
\* C19: sign_credential leaves every field of the credential as it was and
\* returns a container with exactly the fields type, alg, kid, created and
\* signature, each a string; no field of the container is the payload (the
\* canonical text of the credential, plain or base64url), the signature
\* field is the encoded signature alone, and the credential has no signature
\* field and no field holding the container or its signature.
SignatureIsDetached ==
    [][last'.op = "sign_credential" =>
        LET container == held'
            payload == serialize(credential)
        IN  /\ credential' = credential
            /\ signature_container' = container
            /\ {container.d[i][1] : i \in 1..Len(container.d)} =
                   {Str(S_type), Str(S_alg), Str(S_kid), Str(S_created), Str(S_signature)}
            /\ Len(container.d) = 5
            /\ \A i \in 1..Len(container.d) :
                   /\ container.d[i][2].t = "str"
                   /\ encode_utf8(container.d[i][2].s) # payload
                   /\ container.d[i][2].s # b64url_nopad(payload)
            /\ get_item(container, S_signature) =
                   Str(b64url_nopad(signature_bytes(last'.key, signs')))
            /\ ~has_key(credential', S_signature)
            /\ \A i \in 1..Len(credential'.d) :
                   credential'.d[i][2] \notin {container, get_item(container, S_signature)}
    ]_vars

\* sign_credential has signed a credential that create_credential built.
SignatureIsDetachedReached ==
    /\ last.op = "sign_credential"
    /\ ids > 0
    /\ held # None
    /\ held = signature_container
    /\ has_key(credential, S_credentialId)

\* C20: signing again makes a new container and leaves the old one alone:
\* when the instance has a newer container than the one the caller was given
\* and the credential is what was signed, the caller's container has the field
\* values it was returned with and verify_credential accepts it, for that
\* credential, under the key that signed it.
FirstContainerSurvivesResign ==
    (/\ signedAs # None
     /\ signature_container # signedAs.container
     /\ credential = signedAs.value)
    => /\ held = signedAs.container
       /\ verify_credential_result(credential, held, signedAs.key, issued) = "True"

\* The first container was verified after a second sign_credential, made
\* with another key, on a credential that create_credential built.
FirstContainerSurvivesResignReached ==
    /\ ids > 0
    /\ signedAs # None
    /\ signature_container # signedAs.container
    /\ credential = signedAs.value
    /\ signs = 2
    /\ \E e \in issued : e.n = 2 /\ e.key # signedAs.key
    /\ last.op = "verify_credential"
    /\ last.key = signedAs.key
    /\ last.result = "True"

(***************************************************************************)
(* Key rotation under one DID                                              *)
(***************************************************************************)
\* C21: different key indices never give the same kid for one DID, and when
\* the credential was signed for one DID with key index 1 and then again with
\* key index 2, the two containers carry <did>#key-1 and <did>#key-2 and each
\* verifies, for that credential, with the public key of the pair that made
\* it.
KeyRotationBothVerify ==
    /\ \A did \in {DidZAAA, Did_web_example} : \A i, j \in 0..12 :
          i # j => create_key_id(did, i) # create_key_id(did, j)
    /\ \A did \in {DidZAAA, Did_web_example} :
          (/\ signedAs # None
           /\ signature_container # signedAs.container
           /\ credential = signedAs.value
           /\ get_item(held, S_kid) = Str(did \o <<"#", "k", "e", "y", "-", "1">>)
           /\ get_item(signature_container, S_kid) = Str(create_key_id(did, 2)))
          => /\ get_item(held, S_kid) = Str(create_key_id(did, 1))
             /\ get_item(held, S_kid) # get_item(signature_container, S_kid)
             /\ verify_credential_result(credential, held, signedAs.key, issued) = "True"
             /\ \E e \in issued :
                   /\ InContainer(e, signature_container)
                   /\ verify_credential_result(credential, signature_container,
                                               e.key, issued) = "True"

\* A credential that create_credential built was signed with key index 1 and
\* one key pair, then with key index 2 and another key pair.
KeyRotationBothVerifyReached ==
    /\ ids > 0
    /\ signedAs # None
    /\ signature_container # signedAs.container
    /\ credential = signedAs.value
    /\ get_item(held, S_kid) = Str(create_key_id(DidZAAA, 1))
    /\ get_item(signature_container, S_kid) = Str(create_key_id(DidZAAA, 2))
    /\ \E e \in issued : InContainer(e, signature_container) /\ e.key # signedAs.key

(***************************************************************************)
(* The extension namespace                                                 *)
(***************************************************************************)
\* C22: ext does not influence verification or revocation: a credential that
\* differs from the instance's credential only in the presence or contents
\* of ext gets, with the same container and public key, the same result from
\* verify_credential, and the same result from check_revocation.
ExtNotConsidered ==
    (held # None /\ ids > 0) =>
        \A other \in {set_item(credential, S_ext, Dict(<< <<Str(<<"m">>), Str(<<"x">>)>> >>)),
                       set_item(credential, S_ext, Dict(<< <<Str(<<"m">>), Str(<<"y">>)>> >>)),
                       del_item(credential, S_ext)} :
            /\ \A k \in Keys :
                  verify_credential_result(other, held, k, issued) =
                  verify_credential_result(credential, held, k, issued)
            /\ check_revocation_result(other) = check_revocation_result(credential)

(***************************************************************************)
(* The stored container and the stored credential                          *)
(***************************************************************************)
\* C27: whenever self.signature_container is not None it is a signature over
\* self.credential: verify_credential accepts the pair under the key pair
\* that made the container, so the two files export_credential_package
\* writes verify against each other.
StoredSignatureMatchesCredential ==
    signature_container # None =>
        \E e \in issued :
            /\ InContainer(e, signature_container)
            /\ verify_credential_result(credential, signature_container, e.key,
                                        issued) = "True"

(***************************************************************************)
(* Version 1: verification right after signing                             *)
(***************************************************************************)
\* C28: in version 1, verify_credential(self.credential), called right after
\* a sign_credential that returned, with no other change to the credential
\* in between, returns True, also when sign_credential was called several
\* times in a row.
VerifyAfterSignV1 ==
    [][(/\ last.op = "sign_credential"
        /\ last.result = "ok"
        /\ last'.op = "verify_credential"
        /\ last'.key = 0)
       => last'.result = "True"]_vars

(***************************************************************************)
(* The DID in the kid                                                      *)
(***************************************************************************)
\* C29: the kid of a container that sign_credential returned is the
\* creator.did of the credential that was signed, followed by '#' and the key
\* reference.
KidNamesCreator ==
    (/\ signedAs # None
     /\ signedAs.by = "sign_credential"
     /\ has_key(signedAs.value, S_creator))
    => LET kid == get_item(signedAs.container, S_kid).s
           did == get_path(signedAs.value, <<S_creator, S_did>>).s
       IN  /\ Len(kid) > Len(did)
           /\ SubSeq(kid, 1, Len(did)) = did
           /\ kid[Len(did) + 1] = "#"

(***************************************************************************)
(* Callers that share one instance                                         *)
(***************************************************************************)
SpecShared == Init /\ [][Tick \/ \E c \in {1, 2} : caller(c)]_vars

\* C23: callers do not interfere: the container a caller gets back from
\* sign_credential is a signature over the credential that create_credential
\* returned to this caller, and verify_credential accepts the pair under the
\* caller's key.
CallersDoNotInterfere ==
    \A i, j \in 1..Len(output) :
        (/\ output[i].caller = output[j].caller
         /\ output[i].op = "create_credential"
         /\ output[j].op = "sign_credential")
        => verify_credential_result(output[i].value, output[j].value,
                                    output[j].key, issued) = "True"

(***************************************************************************)
(* The static helpers: PerceptualHash, FingerprintBundle, DIDManager       *)
(***************************************************************************)
\* hashlib.sha256(b).hexdigest(), for inputs of at most 31 bytes: 64
\* hexadecimal characters that differ when the inputs differ; the first 16
\* of them differ too when the inputs have at most 7 bytes.
sha256_hexdigest(b) ==
    LET digits == <<"0", "1", "2", "3", "4", "5", "6", "7", "8", "9", "a", "b", "c", "d", "e", "f">>
        hex(n) == <<digits[(n \div 16) + 1], digits[(n % 16) + 1]>>
        body == hex(Len(b)) \o Flatten([i \in 1..Len(b) |-> hex(b[i])])
    IN  body \o [i \in 1..(64 - Len(body)) |-> "0"]

\* A segment hash list without the cut to ten entries.
compute_video_segment_hashes_uncut(video_bytes, segment_size) ==
    /\ LET starts == {i \in 0..(Len(video_bytes) - 1) : i % segment_size = 0}
           count == Cardinality(starts)
           segments == [k \in 1..count |->
               LET i == (k - 1) * segment_size
                   segment == SubSeq(video_bytes, i + 1,
                                     Min(i + segment_size, Len(video_bytes)))
                   seg_hash == SubSeq(sha256_hexdigest(segment), 1, 16)
               IN  Str(<<"s", "e", "g", "_">> \o int_to_str(i \div segment_size) \o <<":">> \o seg_hash)]
       IN  output' = <<List(segments)>>
    /\ input' = <<video_bytes, segment_size>>
    /\ last' = Call("compute_video_segment_hashes", 0, "ok")
    /\ UNCHANGED <<credential, signature_container, held, signedAs, change, issued,
                   ids, signs, now, feed, verified>>

\* PerceptualHash.compute_video_segment_hashes(video_bytes, segment_size),
\* for a positive segment_size: one entry for each i of
\* range(0, len(video_bytes), segment_size), then segments[:10].
compute_video_segment_hashes(video_bytes, segment_size) ==
    /\ LET starts == {i \in 0..(Len(video_bytes) - 1) : i % segment_size = 0}
           count == Cardinality(starts)
           segments == [k \in 1..count |->
               LET i == (k - 1) * segment_size
                   segment == SubSeq(video_bytes, i + 1,
                                     Min(i + segment_size, Len(video_bytes)))
                   seg_hash == SubSeq(sha256_hexdigest(segment), 1, 16)
               IN  Str(<<"s", "e", "g", "_">> \o int_to_str(i \div segment_size) \o <<":">> \o seg_hash)]
       IN  output' = <<List(SubSeq(segments, 1, Min(10, count)))>>
    /\ input' = <<video_bytes, segment_size>>
    /\ last' = Call("compute_video_segment_hashes", 0, "ok")
    /\ UNCHANGED <<credential, signature_container, held, signedAs, change, issued,
                   ids, signs, now, feed, verified>>

\* FingerprintBundle.create_for_text(text_bytes, canonical).  bytes.strip()
\* removes the ASCII whitespace bytes at both ends and bytes.lower() maps the
\* bytes of A-Z only.  input and output keep the arguments and the bundle of
\* this call and of the create_for_text call before it.
create_for_text(text_bytes, canonical) ==
    /\ LET whitespace == {32, 9, 10, 13, 11, 12}
           inner == {i \in 1..Len(text_bytes) : text_bytes[i] \notin whitespace}
           stripped == IF inner = {} THEN <<>>
                       ELSE SubSeq(text_bytes,
                                   CHOOSE i \in inner : \A j \in inner : i <= j,
                                   CHOOSE i \in inner : \A j \in inner : i >= j)
           normalized == [i \in 1..Len(stripped) |->
                            IF stripped[i] \in 65..90 THEN stripped[i] + 32
                            ELSE stripped[i]]
           sha_canonical == IF canonical THEN sha256_hexdigest(normalized)
                            ELSE sha256_hexdigest(text_bytes)
           bundle == Dict(<<
               <<Str(<<"s", "h", "a", "2", "5", "6", "_", "c", "a", "n", "o", "n", "i", "c", "a", "l">>), Str(sha_canonical)>>,
               <<Str(<<"t", "e", "x", "t", "F", "i", "n", "g", "e", "r", "p", "r", "i", "n", "t">>),
                 Str(<<"t", "e", "x", "t", "f", "p", ":">> \o SubSeq(sha256_hexdigest(text_bytes), 1, 16))>>,
               <<Str(<<"a", "l", "g", "o", "r", "i", "t", "h", "m">>), Str(<<"s", "h", "a", "2", "5", "6", "_", "n", "o", "r", "m", "a", "l", "i", "z", "e", "d", "+", "t", "e", "x", "t", "f", "p">>)>>,
               <<Str(<<"c", "a", "n", "o", "n", "i", "c", "a", "l", "i", "z", "a", "t", "i", "o", "n">>),
                 IF canonical THEN Str(<<"s", "t", "r", "i", "p", "_", "w", "h", "i", "t", "e", "s", "p", "a", "c", "e", "_", "l", "o", "w", "e", "r", "c", "a", "s", "e">>) ELSE Str(<<"n", "o", "n", "e">>)>> >>)
           before == IF last.op = "create_for_text" THEN 1 ELSE 0
       IN  /\ input' = <<<<text_bytes, canonical>>>> \o SubSeq(input, 1, before)
           /\ output' = <<bundle>> \o SubSeq(output, 1, before)
    /\ last' = Call("create_for_text", 0, "ok")
    /\ UNCHANGED <<credential, signature_container, held, signedAs, change, issued,
                   ids, signs, now, feed, verified>>

\* DIDManager.generate_did_key(public_key).  The DER SubjectPublicKeyInfo of
\* an RSA key is 38 bytes longer than its modulus: 294, 550 and 422 bytes for
\* the 2048, 4096 and 3072 bit keys the pairs 1, 2 and 3 stand for.
generate_did_key(public_key) ==
    /\ LET size == CASE public_key = 1 -> 294
                     [] public_key = 2 -> 550
                     [] public_key = 3 -> 422
           public_bytes == [i \in 1..size |->
                              IF i = 1 THEN 48 ELSE (41 * i + 7 * public_key) % 256]
           encoded == b64url_nopad(public_bytes)
       IN  output' = <<"d", "i", "d", ":", "k", "e", "y", ":", "z">> \o encoded
    /\ input' = <<public_key>>
    /\ last' = Call("generate_did_key", public_key, "ok")
    /\ UNCHANGED <<credential, signature_container, held, signedAs, change, issued,
                   ids, signs, now, feed, verified>>

\* DIDManager.generate_did_web(domain, path)
generate_did_web(domain, path) ==
    /\ LET path_encoded == [i \in 1..Len(path) |-> IF path[i] = "/" THEN ":" ELSE path[i]]
       IN  output' = IF path # <<>>
                     THEN <<"d", "i", "d", ":", "w", "e", "b", ":">> \o domain \o <<":">> \o path_encoded
                     ELSE <<"d", "i", "d", ":", "w", "e", "b", ":">> \o domain
    /\ input' = <<domain, path>>
    /\ last' = Call("generate_did_web", 0, "ok")
    /\ UNCHANGED <<credential, signature_container, held, signedAs, change, issued,
                   ids, signs, now, feed, verified>>

SpecStatic ==
    Init /\ [][
        \/ \E n \in 0..12, segment_size \in 1..3 :
              compute_video_segment_hashes([i \in 1..n |-> (i * i) % 7], segment_size)
        \/ \E text_bytes \in {<<>>, <<97, 98>>, <<32, 65, 98, 10>>, <<65, 66, 9>>,
                              <<97, 32, 98>>, <<65, 32, 66>>, <<97, 98, 99>>,
                              <<195, 137>>, <<195, 169>>, <<194, 160, 97, 98>>},
              canonical \in BOOLEAN :
              create_for_text(text_bytes, canonical)
        \/ \E public_key \in Keys : generate_did_key(public_key)
        \/ \E domain \in {<<"e", "x", "a", "m", "p", "l", "e", ".", "c", "o", "m">>, <<"e", "x", "a", "m", "p", "l", "e", ".", "c", "o", "m", ":", "8", "0", "8", "0">>, <<"a">>},
              path \in {<<>>, <<"c", "r", "e", "a", "t", "o", "r", "s", "/", "4", "2">>, <<"a", ".", "b", "-", "c", "/", "D", "9">>, <<"u", "/">>,
                        [i \in 1..510 |-> "p"]} :
              generate_did_web(domain, path)
    ]_vars

\* Text without its leading and trailing whitespace and in lower case: the
\* ASCII whitespace bytes, A-Z, and the two-byte UTF-8 capital letters of
\* Latin-1 (195 followed by 128..158, without the multiplication sign 151).
TextFolded(b) ==
    LET inner == {i \in 1..Len(b) : b[i] \notin {32, 9, 10, 13, 11, 12}}
        core == IF inner = {} THEN <<>>
                ELSE SubSeq(b, CHOOSE i \in inner : \A j \in inner : i <= j,
                               CHOOSE i \in inner : \A j \in inner : i >= j)
    IN  [i \in 1..Len(core) |->
            IF core[i] \in 65..90 THEN core[i] + 32
            ELSE IF i > 1 /\ core[i - 1] = 195 /\ core[i] \in (128..158) \ {151}
                 THEN core[i] + 32
                 ELSE core[i]]

\* C24: two create_for_text calls with canonical=True on inputs that differ
\* only in leading and trailing whitespace and in letter case give the same
\* sha256_canonical and the same canonicalization tag; textFingerprint
\* differs when the raw bytes differ; the same input gives the same bundle.
TextNormalization ==
    (last.op = "create_for_text" /\ Len(input) = 2
        /\ input[1][2] /\ input[2][2])
    => /\ TextFolded(input[1][1]) = TextFolded(input[2][1])
          => /\ get_item(output[1], <<"s", "h", "a", "2", "5", "6", "_", "c", "a", "n", "o", "n", "i", "c", "a", "l">>) = get_item(output[2], <<"s", "h", "a", "2", "5", "6", "_", "c", "a", "n", "o", "n", "i", "c", "a", "l">>)
             /\ get_item(output[1], <<"c", "a", "n", "o", "n", "i", "c", "a", "l", "i", "z", "a", "t", "i", "o", "n">>) = get_item(output[2], <<"c", "a", "n", "o", "n", "i", "c", "a", "l", "i", "z", "a", "t", "i", "o", "n">>)
       /\ input[1][1] # input[2][1]
          => get_item(output[1], <<"t", "e", "x", "t", "F", "i", "n", "g", "e", "r", "p", "r", "i", "n", "t">>) # get_item(output[2], <<"t", "e", "x", "t", "F", "i", "n", "g", "e", "r", "p", "r", "i", "n", "t">>)
       /\ input[1][1] = input[2][1] => output[1] = output[2]

\* C25: compute_video_segment_hashes returns min(10, ceil(n/s)) entries for
\* content of n bytes and segment size s; entry k, counted from 0, is seg_k
\* and the first 16 digits of the digest of bytes [k*s, min((k+1)*s, n)).
VideoSegmentsBounded ==
    last.op = "compute_video_segment_hashes" =>
        LET video_bytes == input[1]
            s == input[2]
            n == Len(video_bytes)
            entries == output[1].l
        IN  /\ Len(entries) = Min(10, (n + s - 1) \div s)
            /\ \A k \in 0..(Len(entries) - 1) :
                  entries[k + 1] =
                      Str(<<"s", "e", "g", "_">> \o int_to_str(k) \o <<":">> \o
                          SubSeq(sha256_hexdigest(
                                     SubSeq(video_bytes, k * s + 1, Min((k + 1) * s, n))),
                                 1, 16))

\* Twelve bytes were cut into segments of one byte and the list has ten
\* entries.
VideoSegmentsBoundedReached ==
    /\ last.op = "compute_video_segment_hashes"
    /\ Len(input[1]) = 12
    /\ input[2] = 1
    /\ Len(output[1].l) = 10

\* C30: every identifier generate_did_key and generate_did_web return is
\* accepted by validate_did.
GeneratedDidsValid ==
    last.op \in {"generate_did_key", "generate_did_web"} => validate_did(output)

(***************************************************************************)
(* export_credential_package and load_credential_package                   *)
(***************************************************************************)
\* ContentOriginCredential.export_credential_package(base_path), for one base
\* path: json.dump(obj, f, indent=2) writes every item on a line of its own,
\* keys in insertion order and as str, characters outside ASCII escaped.  The
\* signature file is written only for a truthy self.signature_container.
\* output is the two files: their texts, None for a file that does not exist.
export_credential_package ==
    /\ LET RECURSIVE dump(_, _)
           dump(v, level) ==
               LET newline(n) == <<"\n">> \o [i \in 1..(2 * n) |-> " "]
                   lines(parts) ==
                       Flatten([i \in 1..Len(parts) |->
                           (IF i = 1 THEN <<>> ELSE <<",">>) \o newline(level + 1) \o parts[i]])
                       \o newline(level)
               IN  IF v.t = "list" /\ Len(v.l) > 0
                   THEN <<"[">> \o lines([i \in 1..Len(v.l) |-> dump(v.l[i], level + 1)] \o <<>>)
                        \o <<"]">>
                   ELSE IF v.t = "dict" /\ Len(v.d) > 0
                   THEN <<"{">> \o lines([i \in 1..Len(v.d) |->
                                    dumps_v1(Str(key_text(v.d[i][1]))) \o <<":", " ">>
                                    \o dump(v.d[i][2], level + 1)] \o <<>>)
                        \o <<"}">>
                   ELSE dumps_v1(v)
       IN  output' = <<dump(credential, 0),
                       IF truthy(signature_container) THEN dump(signature_container, 0)
                       ELSE IF output = <<>> THEN None ELSE output[2]>>
    /\ last' = Call("export_credential_package", 0, "ok")
    /\ UNCHANGED <<credential, signature_container, held, signedAs, change, issued,
                   ids, signs, now, input, feed, verified>>

\* ContentOriginCredential.load_credential_package(base_path): json.load of
\* the two files; input is the pair it returns.
load_credential_package ==
    /\ IF output = <<>> \/ output[2] = None
       THEN /\ last' = Call("load_credential_package", 0, "FileNotFoundError")
            /\ UNCHANGED input
       ELSE /\ input' = <<loads(encode_utf8(output[1])), loads(encode_utf8(output[2]))>>
            /\ last' = Call("load_credential_package", 0, "ok")
    /\ UNCHANGED <<credential, signature_container, held, signedAs, change, issued,
                   ids, signs, now, output, feed, verified>>

SpecExport ==
    Init /\ [][
        \/ \E content_metadata \in
                 {MetadataInput,
                  Dict(<< <<Str(S_title), Str(<<EAcute, "\"">>)>>,
                          <<Str(<<"l">>), List(<<Int_(1), Dict(<<>>), List(<<>>)>>)>> >>),
                  Dict(<< <<Str(<<"p">>), Dict(<< <<Int_(10), Int_(1)>>,
                                                  <<Int_(9), Int_(2)>> >>)>> >>)} :
              create_credential(TextPlain, TextBundle, DidZAAA, Human, content_metadata,
                                PointerInput, None, None)
        \/ \E k \in Keys : sign_credential(k, DidZAAA, 1)
        \/ export_credential_package
        \/ load_credential_package
    ]_vars

\* C26: for a signed instance, load_credential_package right after
\* export_credential_package returns a credential and a container equal to
\* the ones in memory, the credential file holds no signature and the
\* signature file holds no credential, and verify_credential gives the same
\* result for the loaded pair as for the pair in memory.
ExportLoadRoundTrip ==
    [][(/\ last.op = "export_credential_package"
        /\ signature_container # None
        /\ last'.op = "load_credential_package")
       => /\ last'.result = "ok"
          /\ input'[1] = credential
          /\ input'[2] = signature_container
          /\ ~has_key(input'[1], S_signature)
          /\ \A i \in 1..Len(input'[2].d) : input'[2].d[i][2].t = "str"
          /\ \A k \in Keys :
                verify_credential_result(input'[1], input'[2], k, issued) =
                verify_credential_result(credential, signature_container, k, issued)
    ]_vars

====
